---- MODULE Spec2Model ----
(***************************************************************************)
(* Model of xtrack/mad_loader.py: the translation of a MAD-X expanded      *)
(* sequence into an xtrack line (MadElem, ElementBuilder,                  *)
(* ElementBuilderWithExpr, CompoundElementBuilder, Alignment, Aperture,    *)
(* MadLoader).                                                             *)
(*                                                                         *)
(* Conventions of the model:                                               *)
(*  - names are strings, built with \o exactly as the code's f-strings;    *)
(*  - angles in radians are integer multiples of pi/4, so rad2deg is the   *)
(*    multiplication by 45; lengths are integers in half-units of the     *)
(*    source unit, so a weight of 0.5 is exact on the even source lengths; *)
(*  - Python's None is the record None; a Python list is a sequence;       *)
(*  - a raised exception is a result record with err # "ok".               *)
(***************************************************************************)
EXTENDS Integers, Sequences, FiniteSets, TLC

VARIABLES
    cfg,           \* the MadLoader options (self.* set by __init__)
    line,          \* the target line: element_names, element_dict, compounds
    pc,            \* position of the running procedure
    todo,          \* builders returned by the converter, not yet materialized
    comp,          \* the CompoundElementBuilder being materialized
    nrec,          \* number of source records visited so far
    src,           \* the source records visited so far (sequence.expanded_elements)
    last_element,  \* iter_elements: the pending view
    yielded,       \* iter_elements: the views yielded so far
    inp,           \* input of the operation under study
    out            \* its result

vars == <<cfg, line, pc, todo, comp, nrec, src, last_element, yielded, inp, out>>

(***************************************************************************)
(* Bounds of the model                                                     *)
(***************************************************************************)
MaxRecords == 3
MaxSeq == 3

None == [none |-> TRUE]
NoAttrs == [k \in {} |-> 0]

Max(a, b) == IF a >= b THEN a ELSE b
Min(a, b) == IF a <= b THEN a ELSE b

(***************************************************************************)
(* Generic functions                                                       *)
(***************************************************************************)
\* rad2deg(rad) = rad * 180 / pi, on angles counted in units of pi/4
rad2deg(rad) == rad * 45

RECURSIVE add_lists(_, _, _)
add_lists(a, b, length) ==
    IF length = 0 THEN <<>>
    ELSE LET ii == length
             c  == IF ii <= Len(a) /\ ii <= Len(b) THEN a[ii] + b[ii]
                   ELSE IF ii <= Len(a) THEN a[ii]
                   ELSE IF ii <= Len(b) THEN b[ii]
                   ELSE 0
         IN  Append(add_lists(a, b, length - 1), c)

RECURSIVE non_zero_len(_)
non_zero_len(lst) ==
    IF lst = <<>> THEN 0
    ELSE IF lst[Len(lst)] # 0 THEN Len(lst)
    ELSE non_zero_len(SubSeq(lst, 1, Len(lst) - 1))

\* lst[:n]
Take(lst, n) == SubSeq(lst, 1, Min(n, Len(lst)))

\* name.startswith(prefix)
StartsWith(name, prefix) ==
    /\ Len(name) >= Len(prefix)
    /\ SubSeq(name, 1, Len(prefix)) = prefix

(***************************************************************************)
(* The target line (xtrack.Line and its compound container)                *)
(***************************************************************************)
EmptyLine ==
    [names |-> <<>>, dict |-> NoAttrs, compounds |-> NoAttrs, nalloc |-> 0, nreg |-> 0,
     var_values |-> NoAttrs, links |-> {}]

\* type(**attrs, _buffer=buffer): the element is allocated at the next
\* free place of the buffer
NewElement(ln, type, attrs) ==
    [type |-> type, attrs |-> attrs, offset |-> ln.nalloc]

\* line.append_element(xtel, name)
append_element(ln, xtel, name) ==
    [ln EXCEPT !.names = Append(@, name),
               !.dict = (name :> xtel) @@ @,
               !.nalloc = @ + 1]

\* line.compound_container.define_compound(name, compound)
define_compound(ln, name, compound) ==
    [ln EXCEPT !.compounds = (name :> compound) @@ @,
               !.nreg = @ + 1]

RECURSIVE FirstFreeSuffix(_, _, _)
FirstFreeSuffix(ln, name, ii) ==
    IF (name \o ":" \o ToString(ii)) \in DOMAIN ln.dict
    THEN FirstFreeSuffix(ln, name, ii + 1)
    ELSE name \o ":" \o ToString(ii)

\* a mutant of generate_repeated_name: no search for a free suffix
generate_repeated_name_nosearch(ln, name) ==
    IF name \in DOMAIN ln.dict THEN name \o ":" \o ToString(0) ELSE name

\* a mutant of generate_repeated_name: the suffix is always given
generate_repeated_name_always(ln, name) ==
    FirstFreeSuffix(ln, name, 0)

\* a mutant of generate_repeated_name: the search starts at 1
generate_repeated_name_from_one(ln, name) ==
    IF name \in DOMAIN ln.dict THEN FirstFreeSuffix(ln, name, 1) ELSE name

generate_repeated_name(ln, name) ==
    IF name \in DOMAIN ln.dict THEN FirstFreeSuffix(ln, name, 0) ELSE name

(***************************************************************************)
(* Builders                                                                *)
(***************************************************************************)
\* ElementBuilder(name, type, **attrs) and ElementBuilderWithExpr(...):
\* cls is the class, "ElementBuilder" or "ElementBuilderWithExpr"
Builder(cls, name, type, attrs) ==
    [cls |-> cls, name |-> name, type |-> type, attrs |-> attrs]

CompoundElementBuilder(name, core, entry_transform, exit_transform, aperture) ==
    [cls |-> "CompoundElementBuilder", name |-> name, core |-> core,
     entry_transform |-> entry_transform, exit_transform |-> exit_transform,
     aperture |-> aperture]

\* ElementBuilder.add_to_line
ElementBuilder_add_to_line(ln, b) ==
    LET xtel == NewElement(ln, b.type, b.attrs)
        name == generate_repeated_name(ln, b.name)
    IN  append_element(ln, xtel, name)

start_marker(cb) == Builder("ElementBuilder", cb.name \o "_entry", "Marker", NoAttrs)
end_marker(cb) == Builder("ElementBuilder", cb.name \o "_exit", "Marker", NoAttrs)

\* a mutant of component_elements: the core is appended before its entry transforms
component_elements_core_first(cb) ==
    <<start_marker(cb)>> \o cb.aperture \o cb.core \o cb.entry_transform
        \o cb.exit_transform \o <<end_marker(cb)>>

\* CompoundElementBuilder.add_to_line: component_elements
component_elements(cb) ==
    <<start_marker(cb)>> \o cb.aperture \o cb.entry_transform \o cb.core
        \o cb.exit_transform \o <<end_marker(cb)>>

\* _get_names(builder_elements)
RECURSIVE get_names(_)
get_names(bs) ==
    IF bs = <<>> THEN <<>> ELSE <<bs[1].name>> \o get_names(Tail(bs))

\* Compound(core=..., aperture=..., entry_transform=..., exit_transform=..., entry=..., exit_=...)
Compound(cb) ==
    [core |-> get_names(cb.core),
     aperture |-> get_names(cb.aperture),
     entry_transform |-> get_names(cb.entry_transform),
     exit_transform |-> get_names(cb.exit_transform),
     entry |-> start_marker(cb).name,
     exit |-> end_marker(cb).name]

\* every element name a compound lists
CompoundNames(c) ==
    {c.entry, c.exit}
        \cup {c.core[i] : i \in DOMAIN c.core}
        \cup {c.aperture[i] : i \in DOMAIN c.aperture}
        \cup {c.entry_transform[i] : i \in DOMAIN c.entry_transform}
        \cup {c.exit_transform[i] : i \in DOMAIN c.exit_transform}

(***************************************************************************)
(* MadElem: the view of one source record                                  *)
(***************************************************************************)
\* the parameters every MAD-X element carries, with their defaults
CommonPars ==
    [l |-> 0, aperture |-> <<0>>, aper_offset |-> <<0>>, aper_tilt |-> 0,
     aper_vx |-> <<-1>>, aper_vy |-> <<-1>>, apertype |-> "circle",
     align_errors |-> None, field_errors |-> None]

\* a raw element of sequence.expanded_elements
Elem(name, type, pars) ==
    [name |-> name, type |-> type] @@ pars @@ CommonPars

\* MadElem.get(key, default)
Get(mad_el, key, default) ==
    IF key \in DOMAIN mad_el THEN mad_el[key] ELSE default

\* MadElem.__init__: the misalignment attributes only a translation may carry
MadElem_raises(elem) ==
    /\ elem.type # "translation"
    /\ \E k \in {"dphi", "dtheta", "dpsi", "dx", "dy", "ds"} : Get(elem, k, 0) # 0

\* MadElem.__init__: the name, with the prefix when one is configured
MadElem(name, elem, name_prefix) ==
    [elem EXCEPT !.name = IF name_prefix = None THEN name
                          ELSE name_prefix.v \o name]

\* a mutant of has_aperture: two entries of aper_vx are enough
has_aperture_two_vertices(mad_el) ==
    \/ /\ "aperture" \in DOMAIN mad_el
       /\ (mad_el.aperture[1] # 0 \/ Len(mad_el.aperture) > 1)
    \/ /\ "aper_vx" \in DOMAIN mad_el
       /\ Len(mad_el.aper_vx) >= 2

\* MadElem.has_aperture
has_aperture(mad_el) ==
    \/ /\ "aperture" \in DOMAIN mad_el
       /\ (mad_el.aperture[1] # 0 \/ Len(mad_el.aperture) > 1)
    \/ /\ "aper_vx" \in DOMAIN mad_el
       /\ Len(mad_el.aper_vx) > 2

\* MadElem.is_empty_marker
is_empty_marker(mad_el) ==
    mad_el.type = "marker" /\ ~has_aperture(mad_el)

(***************************************************************************)
(* Results of a conversion: the builders, or the exception raised          *)
(***************************************************************************)
Ok(bs) == [err |-> "ok", out |-> bs, warned |-> FALSE]
Raise(e) == [err |-> e, out |-> <<>>, warned |-> FALSE]
\* _print('Warning: ...') before the conversion goes on
Warned(r) == [r EXCEPT !.warned = TRUE]

(***************************************************************************)
(* Alignment                                                               *)
(***************************************************************************)
Some(v) == [none |-> FALSE, v |-> v]

\* Alignment.__init__
Alignment(mad_el, enable_errors, custom_tilt) ==
    LET t0  == Get(mad_el, "tilt", 0)
        t1  == IF t0 # 0 THEN rad2deg(t0) ELSE t0
        t2  == IF custom_tilt # None THEN t1 + rad2deg(custom_tilt.v) ELSE t1
        err == enable_errors /\ mad_el.align_errors # None
        ae  == mad_el.align_errors
    IN  [name |-> mad_el.name,
         tilt |-> IF err THEN t2 + rad2deg(ae.dpsi) ELSE t2,
         dx   |-> IF err THEN ae.dx ELSE 0,
         dy   |-> IF err THEN ae.dy ELSE 0]

\* Alignment.entry
Alignment_entry(al, cls) ==
    (IF al.tilt # 0
     THEN <<Builder(cls, al.name \o "_tilt_entry", "SRotation", [angle |-> al.tilt])>>
     ELSE <<>>)
    \o
    (IF al.dx # 0 \/ al.dy # 0
     THEN <<Builder(cls, al.name \o "_offset_entry", "XYShift", [dx |-> al.dx, dy |-> al.dy])>>
     ELSE <<>>)

\* a mutant of Alignment.exit: the offset is not negated
Alignment_exit_same_offset(al, cls) ==
    (IF al.dx # 0 \/ al.dy # 0
     THEN <<Builder(cls, al.name \o "_offset_exit", "XYShift", [dx |-> al.dx, dy |-> al.dy])>>
     ELSE <<>>)
    \o
    (IF al.tilt # 0
     THEN <<Builder(cls, al.name \o "_tilt_exit", "SRotation", [angle |-> -al.tilt])>>
     ELSE <<>>)

\* Alignment.exit
Alignment_exit(al, cls) ==
    (IF al.dx # 0 \/ al.dy # 0
     THEN <<Builder(cls, al.name \o "_offset_exit", "XYShift", [dx |-> -al.dx, dy |-> -al.dy])>>
     ELSE <<>>)
    \o
    (IF al.tilt # 0
     THEN <<Builder(cls, al.name \o "_tilt_exit", "SRotation", [angle |-> -al.tilt])>>
     ELSE <<>>)

(***************************************************************************)
(* Aperture                                                                *)
(***************************************************************************)
\* Aperture.__init__
Aperture(mad_el, enable_errors) ==
    LET off == mad_el.aper_offset
        dx0 == off[1]
        dy0 == IF Len(off) > 1 THEN off[2] ELSE 0
        err == enable_errors /\ mad_el.align_errors # None
        ae  == mad_el.align_errors
    IN  [name |-> mad_el.name,
         aper_tilt |-> rad2deg(mad_el.aper_tilt),
         dx |-> IF err THEN dx0 + ae.arex ELSE dx0,
         dy |-> IF err THEN dy0 + ae.arey ELSE dy0,
         apertype |-> mad_el.apertype]

\* Aperture.entry
Aperture_entry(ap, cls) ==
    (IF ap.aper_tilt # 0
     THEN <<Builder(cls, ap.name \o "_aper_tilt_entry", "SRotation", [angle |-> ap.aper_tilt])>>
     ELSE <<>>)
    \o
    (IF ap.dx # 0 \/ ap.dy # 0
     THEN <<Builder(cls, ap.name \o "_aper_offset_entry", "XYShift", [dx |-> ap.dx, dy |-> ap.dy])>>
     ELSE <<>>)

\* Aperture.exit
Aperture_exit(ap, cls) ==
    (IF ap.dx # 0 \/ ap.dy # 0
     THEN <<Builder(cls, ap.name \o "_aper_offset_exit", "XYShift", [dx |-> -ap.dx, dy |-> -ap.dy])>>
     ELSE <<>>)
    \o
    (IF ap.aper_tilt # 0
     THEN <<Builder(cls, ap.name \o "_aper_tilt_exit", "SRotation", [angle |-> -ap.aper_tilt])>>
     ELSE <<>>)

\* aperture[i], 0 past the end of the list read by aperture[:n]
ApertureAt(mad_el, i) ==
    IF i <= Len(mad_el.aperture) THEN mad_el.aperture[i] ELSE 0

convert_rectangle(self, mad_el) ==
    LET h == ApertureAt(mad_el, 1)
        v == ApertureAt(mad_el, 2)
    IN  Ok(<<Builder(self.Builder, mad_el.name \o "_aper", "LimitRect",
                     [min_x |-> -h, max_x |-> h, min_y |-> -v, max_y |-> v])>>)

convert_racetrack(self, mad_el) ==
    LET h == ApertureAt(mad_el, 1)
        v == ApertureAt(mad_el, 2)
    IN  Ok(<<Builder(self.Builder, mad_el.name \o "_aper", "LimitRacetrack",
                     [min_x |-> -h, max_x |-> h, min_y |-> -v, max_y |-> v,
                      a |-> ApertureAt(mad_el, 3), b |-> ApertureAt(mad_el, 4)])>>)

convert_ellipse(self, mad_el) ==
    Ok(<<Builder(self.Builder, mad_el.name \o "_aper", "LimitEllipse",
                 [a |-> ApertureAt(mad_el, 1), b |-> ApertureAt(mad_el, 2)])>>)

convert_circle(self, mad_el) ==
    Ok(<<Builder(self.Builder, mad_el.name \o "_aper", "LimitEllipse",
                 [a |-> mad_el.aperture[1], b |-> mad_el.aperture[1]])>>)

convert_rectellipse(self, mad_el) ==
    Ok(<<Builder(self.Builder, mad_el.name \o "_aper", "LimitRectEllipse",
                 [max_x |-> ApertureAt(mad_el, 1), max_y |-> ApertureAt(mad_el, 2),
                  a |-> ApertureAt(mad_el, 3), b |-> ApertureAt(mad_el, 4)])>>)

\* a quantity the model keeps symbolic (a quotient or a sine it does not compute)
Sym(op, a, b) == [op |-> op, a |-> a, b |-> b]

\* MadLoader.convert_octagon: the corners V1 = (a0, a0 tan a2) and
\* V2 = (a1 / tan a3, a1), reflected into the four quadrants
convert_octagon(self, ee) ==
    IF Len(ee.aperture) < 4 THEN Raise("IndexError")
    ELSE LET a0 == ee.aperture[1]
             a1 == ee.aperture[2]
             a2 == ee.aperture[3]
             a3 == ee.aperture[4]
             V1x == Sym("a", a0, 0)
             V1y == Sym("a*tan(b)", a0, a2)
             V2x == Sym("a/tan(b)", a1, a3)
             V2y == Sym("a", a1, 0)
             Neg(v) == Sym("-", v, 0)
         IN  Ok(<<Builder(self.Builder, ee.name \o "_aper", "LimitPolygon",
                     [x_vertices |-> <<V1x, V2x, Neg(V2x), Neg(V1x), Neg(V1x), Neg(V2x), V2x, V1x>>,
                      y_vertices |-> <<V1y, V2y, V2y, V1y, Neg(V1y), Neg(V2y), Neg(V2y), Neg(V1y)>>])>>)

\* lst[start::2], start counted from 0
EveryOther(lst, start) ==
    [i \in 1..((Len(lst) - start + 1) \div 2) |-> lst[start + 2 * i - 1]]

\* MadLoader.convert_polygon
convert_polygon(self, ee) ==
    Ok(<<Builder(self.Builder, ee.name \o "_aper", "LimitPolygon",
                 [x_vertices |-> EveryOther(ee.aper_vx, 0),
                  y_vertices |-> EveryOther(ee.aper_vy, 1)])>>)

convert_drift(self, mad_elem) ==
    Ok(<<Builder(self.Builder, mad_elem.name, "Drift", [length |-> mad_elem.l])>>)

DriftLikeTypes ==
    {"monitor", "hmonitor", "vmonitor", "collimator", "rcollimator", "elseparator",
     "instrument"}

\* the types T for which MadLoader has a method convert_T taking a view of an element
ConverterTypes ==
    {"quadrupole", "rbend", "sbend", "sextupole", "octupole", "drift", "marker",
     "solenoid", "multipole", "kicker", "tkicker", "hkicker", "vkicker", "dipedge",
     "rfcavity", "rfmultipole", "wire", "crabcavity", "beambeam", "placeholder",
     "srotation", "xrotation", "yrotation", "translation", "matrix", "nllens"}
        \cup DriftLikeTypes

\* Aperture.aperture: conveter = getattr(self.loader, "convert_" + apertype,
\* None) finds the methods of the shapes and those of the element types.
\* convert_drift returns a Drift; every other element converter ends in
\* make_compound_elem(..., mad_el), which asks for the aperture of the same
\* record again, so the call never returns (RecursionError; errors the
\* converter raises before that call are not told apart from it)
Aperture_aperture(self, mad_el) ==
    IF Len(mad_el.aper_vx) > 2
    THEN Ok(<<Builder(self.Builder, mad_el.name \o "_aper", "LimitPolygon",
                      [x_vertices |-> mad_el.aper_vx, y_vertices |-> mad_el.aper_vy])>>)
    ELSE CASE mad_el.apertype = "rectangle" -> convert_rectangle(self, mad_el)
           [] mad_el.apertype = "racetrack" -> convert_racetrack(self, mad_el)
           [] mad_el.apertype = "ellipse" -> convert_ellipse(self, mad_el)
           [] mad_el.apertype = "circle" -> convert_circle(self, mad_el)
           [] mad_el.apertype = "rectellipse" -> convert_rectellipse(self, mad_el)
           [] mad_el.apertype = "octagon" -> convert_octagon(self, mad_el)
           [] mad_el.apertype = "polygon" -> convert_polygon(self, mad_el)
           [] mad_el.apertype = "drift" -> convert_drift(self, mad_el)
           [] mad_el.apertype \in ConverterTypes -> Raise("RecursionError")
           [] OTHER -> Raise("ApertureTypeNotSupported")

(***************************************************************************)
(* MadLoader: compound assembly                                            *)
(***************************************************************************)
\* a mutant of make_compound_elem: the singleton test looks at the core only
make_compound_elem_singleton_core(self, xtrack_el, mad_el, custom_tilt) ==
    LET align == Alignment(mad_el, self.enable_align_errors, custom_tilt)
        withAper == self.enable_apertures /\ has_aperture(mad_el)
        aper == Aperture(mad_el, self.enable_align_errors)
        shape == IF withAper THEN Aperture_aperture(self, mad_el) ELSE Ok(<<>>)
        aperture_seq ==
            IF withAper
            THEN Aperture_entry(aper, self.Builder) \o shape.out
                     \o Aperture_exit(aper, self.Builder)
            ELSE <<>>
        align_entry == Alignment_entry(align, self.Builder)
        align_exit == Alignment_exit(align, self.Builder)
        elem_list == aperture_seq \o align_entry \o xtrack_el \o align_exit
        is_singleton == Len(xtrack_el) = 1
    IN  IF shape.err # "ok" THEN shape
        ELSE IF ~self.use_compound_elements THEN Ok(elem_list)
        ELSE IF is_singleton /\ xtrack_el[1].type = "Drift"
                    /\ StartsWith(mad_el.name, "drift_") THEN Ok(elem_list)
        ELSE IF is_singleton /\ xtrack_el[1].type = "Marker" THEN Ok(elem_list)
        ELSE Ok(<<CompoundElementBuilder(mad_el.name, xtrack_el, align_entry,
                                         align_exit, aperture_seq)>>)

\* MadLoader.make_compound_elem
make_compound_elem(self, xtrack_el, mad_el, custom_tilt) ==
    LET align == Alignment(mad_el, self.enable_align_errors, custom_tilt)
        withAper == self.enable_apertures /\ has_aperture(mad_el)
        aper == Aperture(mad_el, self.enable_align_errors)
        shape == IF withAper THEN Aperture_aperture(self, mad_el) ELSE Ok(<<>>)
        aperture_seq ==
            IF withAper
            THEN Aperture_entry(aper, self.Builder) \o shape.out
                     \o Aperture_exit(aper, self.Builder)
            ELSE <<>>
        align_entry == Alignment_entry(align, self.Builder)
        align_exit == Alignment_exit(align, self.Builder)
        elem_list == aperture_seq \o align_entry \o xtrack_el \o align_exit
        is_singleton == Len(elem_list) = 1
    IN  IF shape.err # "ok" THEN shape
        ELSE IF ~self.use_compound_elements THEN Ok(elem_list)
        ELSE IF is_singleton /\ elem_list[1].type = "Drift"
                    /\ StartsWith(mad_el.name, "drift_") THEN Ok(elem_list)
        ELSE IF is_singleton /\ elem_list[1].type = "Marker" THEN Ok(elem_list)
        ELSE Ok(<<CompoundElementBuilder(mad_el.name, xtrack_el, align_entry,
                                         align_exit, aperture_seq)>>)

\* a mutant of _assert_element_is_thin: nothing is raised when thick
\* elements are allowed
assert_element_is_thin_when_disabled(self, mad_el) ==
    IF mad_el.l # 0 /\ ~self.allow_thick THEN "ThickDisabled" ELSE "ok"

\* value_if_expr(mad_el.l) != 0 raises in _assert_element_is_thin
assert_element_is_thin(self, mad_el) ==
    IF mad_el.l # 0
    THEN (IF self.allow_thick THEN "ThickNotYetSupported" ELSE "ThickDisabled")
    ELSE "ok"

\* a mutant of _make_drift_slice: the weight is not applied
make_drift_slice_full_length(self, mad_el, halves, prefix, suffix) ==
    Builder(self.Builder, prefix \o mad_el.name \o suffix, "Drift",
            [length |-> mad_el.l])

\* MadLoader._make_drift_slice; the weight is given in halves (0.5 is 1)
\* and name_pattern.format(mad_el.name) is prefix + name + suffix
make_drift_slice(self, mad_el, halves, prefix, suffix) ==
    Builder(self.Builder, prefix \o mad_el.name \o suffix, "Drift",
            [length |-> (mad_el.l * halves) \div 2])

(***************************************************************************)
(* MadLoader: conversion rules                                             *)
(***************************************************************************)
convert_marker(self, mad_elem) ==
    make_compound_elem(self,
        <<Builder(self.Builder, mad_elem.name, "Marker", NoAttrs)>>, mad_elem, None)

convert_drift_like(self, mad_elem) ==
    make_compound_elem(self,
        <<Builder(self.Builder, mad_elem.name, "Drift", [length |-> mad_elem.l])>>,
        mad_elem, None)

convert_multipole(self, mad_elem) ==
    LET thin == assert_element_is_thin(self, mad_elem)
        fe   == mad_elem.field_errors # None /\ self.enable_field_errors
        lmax0 == Max(Max(non_zero_len(mad_elem.knl), non_zero_len(mad_elem.ksl)), 1)
        lmax == IF fe
                THEN Max(lmax0, Max(non_zero_len(mad_elem.field_errors.dkn),
                                    non_zero_len(mad_elem.field_errors.dks)))
                ELSE lmax0
        knl  == IF fe THEN add_lists(mad_elem.knl, mad_elem.field_errors.dkn, lmax)
                ELSE mad_elem.knl
        ksl  == IF fe THEN add_lists(mad_elem.ksl, mad_elem.field_errors.dks, lmax)
                ELSE mad_elem.ksl
        base == [order |-> lmax - 1, knl |-> Take(knl, lmax), ksl |-> Take(ksl, lmax),
                 length |-> mad_elem.lrad]
        bend == IF mad_elem.angle # 0
                THEN [hxl |-> mad_elem.angle]
                ELSE [hxl |-> mad_elem.knl[1], hyl |-> mad_elem.ksl[1]]
    IN  IF thin # "ok" THEN Raise(thin)
        ELSE make_compound_elem(self,
                 <<Builder(self.Builder, mad_elem.name, "Multipole", base @@ bend)>>,
                 mad_elem, None)

(***************************************************************************)
(* Symbolic values: the variable table and the expressions over it         *)
(*   Num(n)        a literal number                                        *)
(*   Expr(k,var,c) the expression k * var + c over the variable table      *)
(*   List(items)   a Python list, Array(items) a numpy array               *)
(*   NoneV         Python's None as an attribute value                     *)
(***************************************************************************)
Num(n) == [t |-> "num", v |-> n]
Expr(k, var, c) == [t |-> "expr", k |-> k, var |-> var, c |-> c]
List(items) == [t |-> "list", items |-> items]
Array(items) == [t |-> "array", items |-> items]
NoneV == [t |-> "none"]

is_expr(x) == x.t = "expr"

\* x._get_value(): the current value of an expression
Eval(x, var_values) == x.k * var_values[x.var] + x.c

\* get_value, on scalars and on one level of list, tuple or array
get_value(x, var_values) ==
    LET scalar(y) == IF is_expr(y) THEN Num(Eval(y, var_values)) ELSE y
    IN  IF is_expr(x) THEN Num(Eval(x, var_values))
        ELSE IF x.t = "list"
             THEN List([i \in DOMAIN x.items |-> scalar(x.items[i])])
        ELSE IF x.t = "array" THEN NoneV
        ELSE x

\* the element class allocates an array attribute it is given None for
\* with zeros of its declared shape
Allocated(given, declared) ==
    IF given.t = "none" /\ declared.t = "array"
    THEN Array([i \in DOMAIN declared.items |-> Num(0)])
    ELSE given

\* target[key] = xx or setattr(target, key, xx) on a reference of the line:
\* the value is set, and an expression stays attached to the place
\* (idx = 0: the attribute itself, idx > 0: its item idx)
AssignRef(ln, name, key, idx, xx) ==
    LET val  == IF is_expr(xx) THEN Num(Eval(xx, ln.var_values)) ELSE xx
        old  == ln.dict[name].attrs[key]
        new  == IF idx = 0 THEN val
                ELSE [old EXCEPT !.items = [@ EXCEPT ![idx] = val]]
        kept == {lk \in ln.links : ~(lk.name = name /\ lk.key = key /\ lk.idx = idx)}
    IN  [ln EXCEPT !.dict = [@ EXCEPT ![name] = [@ EXCEPT !.attrs = [@ EXCEPT ![key] = new]]],
                   !.links = IF is_expr(xx)
                             THEN kept \cup {[name |-> name, key |-> key, idx |-> idx, expr |-> xx]}
                             ELSE kept]

\* set_expr(out, ii, ex) for ii = from .. len(xx)
RECURSIVE set_expr_items(_, _, _, _, _)
set_expr_items(ln, name, key, items, from) ==
    IF from > Len(items) THEN ln
    ELSE set_expr_items(
             IF items[from].t # "none" THEN AssignRef(ln, name, key, from, items[from]) ELSE ln,
             name, key, items, from + 1)

\* a mutant of set_expr: lists and arrays are skipped
set_expr_scalars_only(ln, name, key, xx) ==
    IF xx.t \in {"list", "array", "none"} THEN ln
    ELSE AssignRef(ln, name, key, 0, xx)

\* set_expr(target, key, xx) with target the reference of element name
set_expr(ln, name, key, xx) ==
    IF xx.t = "list" THEN set_expr_items(ln, name, key, xx.items, 1)
    ELSE IF xx.t = "array" THEN set_expr_items(ln, name, key, xx.items, 1)
    ELSE IF xx.t # "none" THEN AssignRef(ln, name, key, 0, xx)
    ELSE ln

\* for k, p in self.attrs.items(): set_expr(elref, k, p)
RECURSIVE set_expr_all(_, _, _, _)
set_expr_all(ln, name, attrs, keys) ==
    IF keys = {} THEN ln
    ELSE LET k == CHOOSE k \in keys : TRUE
         IN  set_expr_all(set_expr(ln, name, k, attrs[k]), name, attrs, keys \ {k})

\* ElementBuilderWithExpr.add_to_line
ElementBuilderWithExpr_add_to_line(ln, b) ==
    LET attr_values == [k \in DOMAIN b.attrs |->
                           Allocated(get_value(b.attrs[k], ln.var_values), b.attrs[k])]
        xtel == NewElement(ln, b.type, attr_values)
        name == generate_repeated_name(ln, b.name)
        ln1  == append_element(ln, xtel, name)
    IN  set_expr_all(ln1, name, b.attrs, DOMAIN b.attrs)

\* el.add_to_line(line, buffer) of a builder that is not a compound
add_to_line(ln, b) ==
    IF b.cls = "ElementBuilderWithExpr" THEN ElementBuilderWithExpr_add_to_line(ln, b)
    ELSE ElementBuilder_add_to_line(ln, b)

\* the variable table is assigned: every attached expression is evaluated again
RECURSIVE Propagate(_, _)
Propagate(ln, links) ==
    IF links = {} THEN ln
    ELSE LET lk == CHOOSE lk \in links : TRUE
             val == Num(Eval(lk.expr, ln.var_values))
             old == ln.dict[lk.name].attrs[lk.key]
             new == IF lk.idx = 0 THEN val
                    ELSE [old EXCEPT !.items = [@ EXCEPT ![lk.idx] = val]]
         IN  Propagate(
                 [ln EXCEPT !.dict = [@ EXCEPT ![lk.name] =
                                         [@ EXCEPT !.attrs = [@ EXCEPT ![lk.key] = new]]]],
                 links \ {lk})

\* line.vars[var] = n
SetVar(ln, var, n) ==
    LET ln1 == [ln EXCEPT !.var_values = [@ EXCEPT ![var] = n]]
    IN  Propagate(ln1, ln1.links)

(***************************************************************************)
(* MadLoader: conversion rules of the magnets, kickers and cavities        *)
(***************************************************************************)
Sign(x) == IF x > 0 THEN 1 ELSE IF x < 0 THEN -1 ELSE 0
Abs(x) == IF x < 0 THEN -x ELSE x

\* math.atan2(y, x) in units of pi/4, on the arguments that lie on an axis
atan2(y, x) == IF y = 0 THEN (IF x >= 0 THEN 0 ELSE 4) ELSE 2 * Sign(y)

\* math.sqrt on the perfect squares
sqrt(n) == CHOOSE r \in 0..n : r * r = n

\* MadLoader._convert_quadrupole_thick
convert_quadrupole_thick(self, mad_el) ==
    LET skew == mad_el.k1s # 0
        tilt == IF skew THEN Some((-atan2(mad_el.k1s, mad_el.k1)) \div 2) ELSE None
        k1   == IF skew THEN sqrt(mad_el.k1s * mad_el.k1s + mad_el.k1 * mad_el.k1) \div 2
                ELSE mad_el.k1
    IN  make_compound_elem(self,
            <<Builder(self.Builder, mad_el.name, "Quadrupole",
                      [k1 |-> k1, length |-> mad_el.l])>>,
            mad_el, tilt)

\* MadLoader.convert_quadrupole
convert_quadrupole(self, mad_el) ==
    IF self.allow_thick
    THEN (IF mad_el.l = 0 THEN Raise("ThickQuadrupoleLengthZero")
          ELSE convert_quadrupole_thick(self, mad_el))
    ELSE Raise("QuadrupoleNotSupportedInThinMode")


\* MadLoader._convert_bend
convert_bend(self, mad_el) ==
    LET arc    == mad_el.type = "rbend" /\ self.rbarc /\ mad_el.angle # 0
        l_curv == IF arc THEN Sym("R*angle", mad_el.l, mad_el.angle) ELSE Sym("l", mad_el.l, 0)
        h      == IF arc THEN Sym("1/R", mad_el.l, mad_el.angle)
                  ELSE Sym("angle/l", mad_el.angle, mad_el.l)
        k0     == IF mad_el.k0 = 0 THEN h ELSE Sym("k0", mad_el.k0, 0)
        num_multipole_kicks == IF mad_el.k2 # 0 THEN 5 ELSE 0
        cls    == IF mad_el.k1 # 0 THEN "CombinedFunctionMagnet" ELSE "Bend"
        kwargs == IF mad_el.k1 # 0 THEN [k1 |-> mad_el.k1] ELSE NoAttrs
        bend_core ==
            Builder(self.Builder, mad_el.name, cls,
                    [k0 |-> k0, h |-> h, length |-> l_curv,
                     knl |-> <<Sym("0", 0, 0), Sym("0", 0, 0), Sym("k2*l_curv", mad_el.k2, 0)>>,
                     num_multipole_kicks |-> num_multipole_kicks] @@ kwargs)
        half   == IF mad_el.type = "rbend" THEN 1 ELSE 0
        edge(nm, e, fint, side) ==
            Builder(self.Builder, mad_el.name \o nm, "DipoleEdge",
                    [e1 |-> Sym("e+angle*half/2", e, half * mad_el.angle),
                     e1_fd |-> Sym("(k0-h)*l_curv/2", k0, h),
                     fint |-> fint, hgap |-> mad_el.hgap, k |-> k0, side |-> side])
        fintx  == IF mad_el.fintx >= 0 THEN mad_el.fintx ELSE mad_el.fint
    IN  IF ~self.allow_thick THEN Raise("BendsNotSupportedInThinMode")
        ELSE IF mad_el.l = 0 THEN Raise("ZeroDivisionError")
        ELSE IF mad_el.type \notin {"sbend", "rbend"} THEN Raise("UnknownBendType")
        ELSE make_compound_elem(self,
                 <<edge("_den", mad_el.e1, mad_el.fint, "entry"), bend_core,
                   edge("_dex", mad_el.e2, fintx, "exit")>>,
                 mad_el, None)

convert_rbend(self, mad_el) == convert_bend(self, mad_el)
convert_sbend(self, mad_el) == convert_bend(self, mad_el)

convert_sextupole(self, mad_el) ==
    make_compound_elem(self,
        <<Builder(self.Builder, mad_el.name, "Sextupole",
                  [k2 |-> mad_el.k2, k2s |-> mad_el.k2s, length |-> mad_el.l])>>,
        mad_el, None)

\* the tail of convert_octupole, convert_kicker, convert_hkicker and
\* convert_vkicker: the thin element alone, or between two drift slices
sliced_or_thin(self, mad_el, thin) ==
    IF mad_el.l # 0
    THEN LET check == IF ~self.allow_thick THEN assert_element_is_thin(self, mad_el) ELSE "ok"
         IN  IF check # "ok" THEN Raise(check)
             ELSE make_compound_elem(self,
                      <<make_drift_slice(self, mad_el, 1, "drift_", "..1"), thin,
                        make_drift_slice(self, mad_el, 1, "drift_", "..2")>>,
                      mad_el, None)
    ELSE make_compound_elem(self, <<thin>>, mad_el, None)

convert_octupole(self, mad_el) ==
    sliced_or_thin(self, mad_el,
        Builder(self.Builder, mad_el.name, "Multipole",
                [knl |-> <<0, 0, 0, mad_el.k3 * mad_el.l>>,
                 ksl |-> <<0, 0, 0, mad_el.k3s * mad_el.l>>,
                 length |-> mad_el.l]))

thin_kicker(self, mad_el, hkick, vkick) ==
    Builder(self.Builder, mad_el.name, "Multipole",
            [knl |-> hkick, ksl |-> vkick, length |-> mad_el.lrad, hxl |-> 0, hyl |-> 0])

convert_kicker(self, mad_el) ==
    sliced_or_thin(self, mad_el,
        thin_kicker(self, mad_el,
            IF mad_el.hkick # 0 THEN <<-mad_el.hkick>> ELSE <<>>,
            IF mad_el.vkick # 0 THEN <<mad_el.vkick>> ELSE <<>>))

convert_tkicker(self, mad_el) == convert_kicker(self, mad_el)

convert_hkicker(self, mad_el) ==
    IF mad_el.hkick # 0 THEN Raise("HkickerWithHkick")
    ELSE sliced_or_thin(self, mad_el,
             thin_kicker(self, mad_el,
                 IF mad_el.kick # 0 THEN <<-mad_el.kick>> ELSE <<>>, <<>>))

convert_vkicker(self, mad_el) ==
    IF mad_el.vkick # 0 THEN Raise("VkickerWithVkick")
    ELSE sliced_or_thin(self, mad_el,
             thin_kicker(self, mad_el, <<>>,
                 IF mad_el.kick # 0 THEN <<mad_el.kick>> ELSE <<>>))

convert_rfcavity(self, ee) ==
    LET frequency == IF ee.freq = 0 /\ ee.harmon # 0
                     THEN Sym("harmon*beta*clight/length", ee.harmon, 0)
                     ELSE Sym("freq*1e6", ee.freq, 0)
        el == Builder(self.Builder, ee.name, "Cavity",
                      [voltage |-> Sym("scale_voltage*volt*1e6", ee.volt, 0),
                       frequency |-> frequency, lag |-> ee.lag * 360])
    IN  IF ee.l # 0
        THEN make_compound_elem(self,
                 <<make_drift_slice(self, ee, 1, "drift_", "..1"), el,
                   make_drift_slice(self, ee, 1, "drift_", "..2")>>,
                 ee, None)
        ELSE make_compound_elem(self, <<el>>, ee, None)

\* a mutant of convert_solenoid: a solenoid of length zero becomes a thick
\* Solenoid like any other, without a warning
convert_solenoid_always_thick(self, mad_elem) ==
    make_compound_elem(self,
        <<Builder(self.Builder, mad_elem.name, "Solenoid",
                  [length |-> mad_elem.l, ks |-> mad_elem.ks, ksi |-> mad_elem.ksi])>>,
        mad_elem, None)

\* MadLoader.convert_solenoid
convert_solenoid(self, mad_elem) ==
    IF mad_elem.l = 0
    THEN Warned(convert_drift_like(self, mad_elem))
    ELSE make_compound_elem(self,
             <<Builder(self.Builder, mad_elem.name, "Solenoid",
                       [length |-> mad_elem.l, ks |-> mad_elem.ks, ksi |-> mad_elem.ksi])>>,
             mad_elem, None)

convert_rfmultipole(self, ee) ==
    LET thin == assert_element_is_thin(self, ee)
    IN  IF thin # "ok" THEN Raise(thin)
        ELSE IF ee.harmon # 0 THEN Raise("NotImplementedError")
        ELSE IF ee.l # 0 THEN Raise("NotImplementedError")
        ELSE make_compound_elem(self,
                 <<Builder(self.Builder, ee.name, "RFMultipole",
                           [voltage |-> Sym("volt*1e6", ee.volt, 0),
                            frequency |-> Sym("freq*1e6", ee.freq, 0),
                            lag |-> ee.lag * 360, knl |-> ee.knl, ksl |-> ee.ksl,
                            pn |-> [i \in DOMAIN ee.pnl |-> ee.pnl[i] * 360],
                            ps |-> [i \in DOMAIN ee.psl |-> ee.psl[i] * 360]])>>,
                 ee, None)

convert_wire(self, ee) ==
    LET thin == assert_element_is_thin(self, ee)
    IN  IF thin # "ok" THEN Raise(thin)
        ELSE IF Len(ee.L_phy) = 1
        THEN make_compound_elem(self,
                 <<Builder(self.Builder, ee.name, "Wire",
                           [L_phy |-> ee.L_phy[1], L_int |-> ee.L_int[1],
                            current |-> ee.current[1], xma |-> ee.xma[1],
                            yma |-> ee.yma[1]])>>,
                 ee, None)
        ELSE Raise("MultiwireNotSupported")

\* abs(ee.tilt - pi/2) < 1e-9: pi/2 is 2 in units of pi/4
convert_crabcavity(self, ee) ==
    LET thin == assert_element_is_thin(self, ee)
        vertical == ee.tilt = 2
        el == IF vertical
              THEN Builder(self.Builder, ee.name, "RFMultipole",
                           [frequency |-> Sym("freq*1e6", ee.freq, 0),
                            ksl |-> <<Sym("-volt/pc*1e-3", ee.volt, 0)>>,
                            ps |-> <<ee.lag * 360 + 90>>])
              ELSE Builder(self.Builder, ee.name, "RFMultipole",
                           [frequency |-> Sym("freq*1e6", ee.freq, 0),
                            knl |-> <<Sym("volt/pc*1e-3", ee.volt, 0)>>,
                            pn |-> <<ee.lag * 360 + 90>>])
    IN  IF thin # "ok" THEN Raise(thin)
        ELSE make_compound_elem(self, <<el>>,
                 IF vertical THEN [ee EXCEPT !.tilt = 0] ELSE ee, None)

\* the builder of a beam-beam element is always the plain ElementBuilder
convert_beambeam(self, ee) ==
    LET thin == assert_element_is_thin(self, ee)
        el == IF ee.slot_id = 6 \/ ee.slot_id = 60
              THEN Builder("ElementBuilder", ee.name, "BeamBeamBiGaussian3D",
                           [old_interface |-> "zeros"])
              ELSE Builder("ElementBuilder", ee.name, "BeamBeamBiGaussian2D",
                           [n_particles |-> 0, q0 |-> 0, beta0 |-> 1, mean_x |-> 0,
                            mean_y |-> 0, sigma_x |-> 1, sigma_y |-> 1, d_px |-> 0,
                            d_py |-> 0])
    IN  IF thin # "ok" THEN Raise(thin)
        ELSE make_compound_elem(self, <<el>>, ee, None)

convert_dipedge(self, mad_elem) ==
    make_compound_elem(self,
        <<Builder(self.Builder, mad_elem.name, "DipoleEdge",
                  [h |-> mad_elem.h, e1 |-> mad_elem.e1, hgap |-> mad_elem.hgap,
                   fint |-> mad_elem.fint])>>,
        mad_elem, None)

convert_placeholder(self, ee) ==
    IF ee.slot_id = 1 \/ ee.slot_id = 2 THEN Raise("FeatureDiscontinued")
    ELSE make_compound_elem(self,
             <<IF ee.slot_id = 3
               THEN Builder(self.Builder, ee.name, "SCInterpolatedProfile", NoAttrs)
               ELSE Builder(self.Builder, ee.name, "Drift", [length |-> ee.l])>>,
             ee, None)

\* convert_srotation, convert_xrotation, convert_yrotation: angle*180/pi
convert_rotation(self, ee, cls) ==
    make_compound_elem(self,
        <<Builder(self.Builder, ee.name, cls, [angle |-> rad2deg(ee.angle)])>>, ee, None)

convert_translation(self, ee) ==
    IF ee.ds # 0 THEN Raise("NotImplementedError")
    ELSE make_compound_elem(self,
             <<Builder(self.Builder, ee.name, "XYShift", [dx |-> ee.dx, dy |-> ee.dy])>>,
             [ee EXCEPT !.dx = 0, !.dy = 0, !.ds = 0], None)

\* MadLoader.convert_matrix: m0[i] is kick<i>, m1[i][j] is rm<i><j>, zero
\* where the record has no such parameter
convert_matrix(self, ee) ==
    make_compound_elem(self,
        <<Builder(self.Builder, ee.name, "FirstOrderTaylorMap",
                  [length |-> ee.l,
                   m0 |-> [i \in 1..6 |-> Get(ee, "kick" \o ToString(i), 0)],
                   m1 |-> [i \in 1..6 |-> [j \in 1..6 |->
                              Get(ee, "rm" \o ToString(i) \o ToString(j), 0)]]])>>,
        ee, None)

\* MadLoader.convert_nllens
convert_nllens(self, mad_elem) ==
    make_compound_elem(self,
        <<Builder(self.Builder, mad_elem.name, "NonLinearLens",
                  [knll |-> mad_elem.knll, cnll |-> mad_elem.cnll])>>,
        mad_elem, None)

\* the converter of the record calls the code that builds a thick element:
\* _convert_quadrupole_thick behind the two tests of convert_quadrupole,
\* _convert_bend from convert_rbend and convert_sbend without a test, the
\* Solenoid builder behind the length test of convert_solenoid
thick_code_entered(self, mad_el) ==
    CASE mad_el.type = "quadrupole" -> self.allow_thick /\ mad_el.l # 0
      [] mad_el.type \in {"rbend", "sbend"} -> TRUE
      [] mad_el.type = "solenoid" -> mad_el.l # 0
      [] OTHER -> FALSE

(***************************************************************************)
(* MadLoader.make_line: the dispatch on the type of the view               *)
(***************************************************************************)
\* converter = getattr(self, "convert_" + el.type, None); converter(el), or
\* the ValueError of make_line for a type without a method convert_<type>
converter(self, el) ==
    CASE el.type = "quadrupole" -> convert_quadrupole(self, el)
      [] el.type = "rbend" -> convert_rbend(self, el)
      [] el.type = "sbend" -> convert_sbend(self, el)
      [] el.type = "sextupole" -> convert_sextupole(self, el)
      [] el.type = "octupole" -> convert_octupole(self, el)
      [] el.type = "drift" -> convert_drift(self, el)
      [] el.type = "marker" -> convert_marker(self, el)
      [] el.type \in DriftLikeTypes -> convert_drift_like(self, el)
      [] el.type = "solenoid" -> convert_solenoid(self, el)
      [] el.type = "multipole" -> convert_multipole(self, el)
      [] el.type = "kicker" -> convert_kicker(self, el)
      [] el.type = "tkicker" -> convert_tkicker(self, el)
      [] el.type = "hkicker" -> convert_hkicker(self, el)
      [] el.type = "vkicker" -> convert_vkicker(self, el)
      [] el.type = "dipedge" -> convert_dipedge(self, el)
      [] el.type = "rfcavity" -> convert_rfcavity(self, el)
      [] el.type = "rfmultipole" -> convert_rfmultipole(self, el)
      [] el.type = "wire" -> convert_wire(self, el)
      [] el.type = "crabcavity" -> convert_crabcavity(self, el)
      [] el.type = "beambeam" -> convert_beambeam(self, el)
      [] el.type = "placeholder" -> convert_placeholder(self, el)
      [] el.type = "srotation" -> convert_rotation(self, el, "SRotation")
      [] el.type = "xrotation" -> convert_rotation(self, el, "XRotation")
      [] el.type = "yrotation" -> convert_rotation(self, el, "YRotation")
      [] el.type = "translation" -> convert_translation(self, el)
      [] el.type = "matrix" -> convert_matrix(self, el)
      [] el.type = "nllens" -> convert_nllens(self, el)
      [] OTHER -> Raise("Element " \o el.type \o " not supported")

(***************************************************************************)
(* iter_elements: the merge of a drift into the pending drift              *)
(***************************************************************************)
\* a mutant of merge_drift: the length of the current drift is dropped
merge_drift_keep_length(last, el) ==
    last

\* last_element.l += el.l
merge_drift(last, el) ==
    [last EXCEPT !.l = @ + el.l]

(***************************************************************************)
(* MadElem.merge_multipole                                                 *)
(***************************************************************************)
\* MadElem.same_aperture
same_aperture(self, other) ==
    /\ self.aperture = other.aperture
    /\ self.aper_offset = other.aper_offset
    /\ self.aper_tilt = other.aper_tilt
    /\ self.aper_vx = other.aper_vx
    /\ self.aper_vy = other.aper_vy
    /\ self.apertype = other.apertype

\* a mutant of merge_condition: the tilt is not compared
merge_condition_no_tilt(self, other) ==
    /\ same_aperture(self, other)
    /\ self.align_errors = other.align_errors
    /\ self.angle = other.angle

\* the condition under which merge_multipole merges
merge_condition(self, other) ==
    /\ same_aperture(self, other)
    /\ self.align_errors = other.align_errors
    /\ self.tilt = other.tilt
    /\ self.angle = other.angle

\* the loop over range(len(self.field_errors.dkn)) reads past the end of a list
field_errors_index_error(self, other) ==
    LET n == Len(self.field_errors.dkn)
    IN  \/ Len(other.field_errors.dkn) < n
        \/ Len(self.field_errors.dks) < n
        \/ Len(other.field_errors.dks) < n

\* self.field_errors after the loop over range(len(self.field_errors.dkn))
merged_field_errors(self, other) ==
    IF self.field_errors # None /\ other.field_errors # None
           /\ ~field_errors_index_error(self, other)
    THEN LET n == Len(self.field_errors.dkn)
         IN  [self.field_errors EXCEPT
                 !.dkn = [i \in DOMAIN @ |-> @[i] + other.field_errors.dkn[i]],
                 !.dks = [i \in DOMAIN @ |->
                             IF i <= n THEN @[i] + other.field_errors.dks[i] ELSE @[i]]]
    ELSE self.field_errors

\* MadElem.merge_multipole(other): the value returned, the exception raised,
\* and self and other after the call.  self.knl += other.knl is the += of
\* two Python lists (eval_list returns a list): it appends the items of
\* other.knl to self.knl.
merge_multipole(self, other) ==
    IF merge_condition(self, other)
    THEN [merged |-> TRUE,
          err |-> IF self.field_errors # None /\ other.field_errors # None
                         /\ field_errors_index_error(self, other)
                  THEN "IndexError" ELSE "ok",
          self |-> [self EXCEPT !.knl = self.knl \o other.knl,
                                !.ksl = self.ksl \o other.ksl,
                                !.field_errors = merged_field_errors(self, other),
                                !.name = self.name \o "_" \o other.name],
          other |-> other]
    ELSE [merged |-> FALSE, err |-> "ok", self |-> self, other |-> other]

(***************************************************************************)
(* MadLoader.add_elements, in one step                                     *)
(***************************************************************************)
RECURSIVE add_all(_, _)
add_all(ln, bs) ==
    IF bs = <<>> THEN ln ELSE add_all(add_to_line(ln, Head(bs)), Tail(bs))

\* CompoundElementBuilder.add_to_line
CompoundElementBuilder_add_to_line(ln, cb) ==
    define_compound(add_all(ln, component_elements(cb)), cb.name, Compound(cb))

\* MadLoader.add_elements
RECURSIVE add_elements(_, _)
add_elements(ln, elements) ==
    IF elements = <<>> THEN ln
    ELSE add_elements(
             IF Head(elements).cls = "CompoundElementBuilder"
             THEN CompoundElementBuilder_add_to_line(ln, Head(elements))
             ELSE add_to_line(ln, Head(elements)),
             Tail(elements))

(***************************************************************************)
(* MadLoader.__init__: the options and their defaults                      *)
(***************************************************************************)
DefaultCfg ==
    [enable_expressions |-> FALSE, enable_field_errors |-> FALSE,
     enable_align_errors |-> FALSE, enable_apertures |-> FALSE,
     skip_markers |-> FALSE, merge_drifts |-> FALSE, merge_multipoles |-> FALSE,
     ignore_madtypes |-> {}, expressions_for_element_types |-> None,
     allow_thick |-> FALSE, use_compound_elements |-> TRUE, name_prefix |-> None,
     rbarc |-> TRUE, Builder |-> "ElementBuilder"]

\* an alignment-error record of the error table
AlignErrors(dx, dy, dpsi) ==
    [none |-> FALSE, dx |-> dx, dy |-> dy, dpsi |-> dpsi, arex |-> 0, arey |-> 0]

\* the parameters of a thin multipole
MultipolePars(knl, ksl) ==
    [knl |-> knl, ksl |-> ksl, tilt |-> 0, angle |-> 0, lrad |-> 0]

(***************************************************************************)
(* SpecLine: make_line materializes the builders of each record, one       *)
(* add_to_line call per step                                               *)
(***************************************************************************)
LineNames == {"a", "a:0"}

LineConfigs ==
    {[DefaultCfg EXCEPT !.enable_apertures = TRUE, !.enable_align_errors = TRUE,
                        !.use_compound_elements = u] : u \in BOOLEAN}

\* the source records of SpecLine: a drift, a marker, a tilted multipole with
\* an aperture, a multipole with an offset error
LineRecords ==
    UNION {
        {Elem(n, "drift", [l |-> 2]),
         Elem(n, "marker", NoAttrs),
         Elem(n, "multipole", [tilt |-> 1, aperture |-> <<1>>] @@ MultipolePars(<<1>>, <<0>>)),
         Elem(n, "multipole",
              [align_errors |-> AlignErrors(1, 0, 0)] @@ MultipolePars(<<0, 1>>, <<0>>))}
        : n \in LineNames}

\* the drifts whose length is an expression of the variable table
LineExprRecords ==
    {[name |-> n, type |-> "drift", l |-> Expr(2, "v1", 0)] : n \in LineNames}

LineVarValues == [v \in {"v1"} |-> 1]

LineInit ==
    /\ cfg \in LineConfigs
    /\ line = [EmptyLine EXCEPT !.var_values = LineVarValues]
    /\ pc = "loop"
    /\ todo = <<>>
    /\ comp = None
    /\ nrec = 0
    /\ src = <<>>
    /\ last_element = None
    /\ yielded = <<>>
    /\ inp = None
    /\ out = None

\* make_line, loop body: converted_el = converter(el)
MakeLineConvert ==
    /\ pc = "loop"
    /\ todo = <<>>
    /\ nrec < MaxRecords
    /\ \E el \in LineRecords :
          LET r == converter(cfg, MadElem(el.name, el, cfg.name_prefix))
          IN  /\ todo' = r.out
              /\ pc' = IF r.err = "ok" THEN "loop" ELSE r.err
    /\ nrec' = nrec + 1
    /\ UNCHANGED <<cfg, line, comp, src, last_element, yielded, inp, out>>

\* make_line, loop body with self.Builder = ElementBuilderWithExpr
MakeLineConvertExpr ==
    /\ pc = "loop"
    /\ todo = <<>>
    /\ nrec < MaxRecords
    /\ \E el \in LineExprRecords :
          LET r == convert_drift([cfg EXCEPT !.Builder = "ElementBuilderWithExpr"],
                                 MadElem(el.name, el, cfg.name_prefix))
          IN  /\ todo' = r.out
              /\ pc' = IF r.err = "ok" THEN "loop" ELSE r.err
    /\ nrec' = nrec + 1
    /\ UNCHANGED <<cfg, line, comp, src, last_element, yielded, inp, out>>

\* add_elements: el.add_to_line(line, buffer) of a plain or expression-linked builder
AddElement ==
    /\ pc = "loop"
    /\ todo # <<>>
    /\ Head(todo).cls # "CompoundElementBuilder"
    /\ line' = add_to_line(line, Head(todo))
    /\ todo' = Tail(todo)
    /\ UNCHANGED <<cfg, pc, comp, nrec, src, last_element, yielded, inp, out>>

\* CompoundElementBuilder.add_to_line: the markers and component_elements are built
CompoundBegin ==
    /\ pc = "loop"
    /\ todo # <<>>
    /\ Head(todo).cls = "CompoundElementBuilder"
    /\ comp' = [cb |-> Head(todo), rest |-> component_elements(Head(todo)),
                start |-> Len(line.names)]
    /\ pc' = "compound"
    /\ UNCHANGED <<cfg, line, todo, nrec, src, last_element, yielded, inp, out>>

\* CompoundElementBuilder.add_to_line: for el in component_elements: el.add_to_line
CompoundAdd ==
    /\ pc = "compound"
    /\ comp.rest # <<>>
    /\ line' = add_to_line(line, Head(comp.rest))
    /\ comp' = [comp EXCEPT !.rest = Tail(@)]
    /\ UNCHANGED <<cfg, pc, todo, nrec, src, last_element, yielded, inp, out>>

\* CompoundElementBuilder.add_to_line: define_compound(self.name, compound)
CompoundRegister ==
    /\ pc = "compound"
    /\ comp.rest = <<>>
    /\ line' = define_compound(line, comp.cb.name, Compound(comp.cb))
    /\ todo' = Tail(todo)
    /\ pc' = "loop"
    /\ UNCHANGED <<cfg, comp, nrec, src, last_element, yielded, inp, out>>

LineNext ==
    \/ MakeLineConvert
    \/ MakeLineConvertExpr
    \/ AddElement
    \/ CompoundBegin
    \/ CompoundAdd
    \/ CompoundRegister

SpecLine == LineInit /\ [][LineNext]_vars

(***************************************************************************)
(* Claims on the materialization of builders                               *)
(***************************************************************************)
\* C1: after any sequence of materializations into one line, with repeated
\* source names and names that already end in ':<n>', the element names of the
\* line are pairwise distinct and no entry of the line is overwritten: the
\* name at position i still designates the element allocated i-th.
C1_NamesUnique ==
    /\ \A i, j \in DOMAIN line.names : i # j => line.names[i] # line.names[j]
    /\ \A i \in DOMAIN line.names : line.dict[line.names[i]].offset = i - 1
    /\ DOMAIN line.dict = {line.names[i] : i \in DOMAIN line.names}

\* a repeated name met a name that already carries the suffix ':0'
C1_Witness ==
    /\ "a:1" \in DOMAIN line.dict
    /\ "a_entry:0" \in DOMAIN line.dict
    /\ line.links # {}

\* the names the components of a compound builder have, in the order of the claim
C6_ExpectedOrder(cb) ==
    <<[name |-> cb.name \o "_entry", type |-> "Marker", attrs |-> NoAttrs]>>
        \o [i \in DOMAIN cb.aperture |->
               [name |-> cb.aperture[i].name, type |-> cb.aperture[i].type,
                attrs |-> cb.aperture[i].attrs]]
        \o [i \in DOMAIN cb.entry_transform |->
               [name |-> cb.entry_transform[i].name, type |-> cb.entry_transform[i].type,
                attrs |-> cb.entry_transform[i].attrs]]
        \o [i \in DOMAIN cb.core |->
               [name |-> cb.core[i].name, type |-> cb.core[i].type,
                attrs |-> cb.core[i].attrs]]
        \o [i \in DOMAIN cb.exit_transform |->
               [name |-> cb.exit_transform[i].name, type |-> cb.exit_transform[i].type,
                attrs |-> cb.exit_transform[i].attrs]]
        \o <<[name |-> cb.name \o "_exit", type |-> "Marker", attrs |-> NoAttrs]>>

\* the line holds, from position start on and up to its end, exactly the
\* expected components, each under its builder's name or that name suffixed
C6_AppendedInOrder(ln, start, expected) ==
    /\ Len(ln.names) = start + Len(expected)
    /\ \A i \in DOMAIN expected :
          LET n == ln.names[start + i]
          IN  /\ (n = expected[i].name \/ StartsWith(n, expected[i].name \o ":"))
              /\ ln.dict[n].type = expected[i].type
              /\ ln.dict[n].attrs = expected[i].attrs
              /\ ln.dict[n].offset = start + i - 1

\* C6: a compound is registered only in a step of its add_to_line that finds
\* all its constituents appended to the line contiguously and in the order
\* entry marker, aperture, entry transforms, core, exit transforms, exit marker.
C6_CompoundOrder ==
    [][line'.nreg # line.nreg =>
          /\ pc = "compound"
          /\ line'.names = line.names
          /\ comp.cb.name \in DOMAIN line'.compounds
          /\ C6_AppendedInOrder(line, comp.start, C6_ExpectedOrder(comp.cb))]_vars

\* a compound with an aperture, entry and exit transforms is registered
C6_Witness ==
    \E c \in DOMAIN line.compounds :
        /\ line.compounds[c].aperture # <<>>
        /\ line.compounds[c].entry_transform # <<>>
        /\ line.compounds[c].exit_transform # <<>>
        /\ line.compounds[c].core # <<>>

\* C7: every element name a registered compound lists (core, aperture,
\* entry_transform, exit_transform, entry, exit) is a key of the line, from
\* the state in which the compound is registered on.
C7_CompoundNamesInLine ==
    \A c \in DOMAIN line.compounds :
        CompoundNames(line.compounds[c]) \subseteq DOMAIN line.dict

\* two compounds of the same source name are registered: the builders of the
\* second were inserted under suffixed names
C7_Witness ==
    /\ line.nreg >= 2
    /\ "a_entry:0" \in DOMAIN line.dict
    /\ "a" \in DOMAIN line.compounds

(***************************************************************************)
(* SpecIter: iter_elements walks the source sequence; every view it yields *)
(* is converted and added to the line by the loop body of make_line        *)
(***************************************************************************)
\* class Dummy: the sentinel of iter_elements
Dummy == [type |-> "None"]

\* every combination of the two merges and the marker skipping, and two
\* loaders that ignore a type
IterConfigs ==
    {[DefaultCfg EXCEPT !.merge_drifts = md, !.merge_multipoles = mm,
                        !.skip_markers = sk]
        : md \in BOOLEAN, mm \in BOOLEAN, sk \in BOOLEAN}
    \cup {[DefaultCfg EXCEPT !.merge_drifts = TRUE, !.merge_multipoles = TRUE,
                             !.skip_markers = TRUE, !.ignore_madtypes = ig]
            : ig \in {{"multipole"}, {"drift"}}}

\* the multipoles of SpecIter: two that can merge, with strength lists of
\* different lengths, and four that differ from the first in one parameter
\* merge_multipole compares
IterMultipoles ==
    {MultipolePars(<<1>>, <<0>>),
     MultipolePars(<<2, 3>>, <<0, 1>>),
     [tilt |-> 1] @@ MultipolePars(<<1>>, <<0>>),
     [angle |-> 1] @@ MultipolePars(<<1>>, <<0>>),
     [aperture |-> <<1>>] @@ MultipolePars(<<1>>, <<0>>),
     [align_errors |-> AlignErrors(1, 0, 0)] @@ MultipolePars(<<1>>, <<0>>)}

\* the records of SpecIter, before they get the name of their place; the
\* loader has no method for a twcavity
IterRecords ==
    {Elem("", "drift", [l |-> 2]), Elem("", "drift", [l |-> 4]),
     Elem("", "marker", NoAttrs), Elem("", "marker", [aperture |-> <<1>>]),
     Elem("", "twcavity", [l |-> 2])}
    \cup {Elem("", "multipole", p) : p \in IterMultipoles}

\* the element at place n of the sequence
Named(el, n) == [el EXCEPT !.name = "e" \o ToString(n)]

IterInit ==
    /\ cfg \in IterConfigs
    /\ line = EmptyLine
    /\ pc = "iter"
    /\ todo = <<>>
    /\ comp = None
    /\ nrec = 0
    /\ src = <<>>
    /\ last_element = Dummy
    /\ yielded = <<>>
    /\ inp = None
    /\ out = None

\* make_line, loop body: self.Builder follows the allow-list
builder_class_for(self, el) ==
    IF self.expressions_for_element_types # None
    THEN [self EXCEPT !.Builder = IF el.type \in self.expressions_for_element_types.v
                                  THEN "ElementBuilderWithExpr"
                                  ELSE "ElementBuilder"]
    ELSE self

\* make_line, loop body: self.add_elements(converted_el, line, buffer), unless
\* the converter raised
\* a mutant of make_line_add: the converted builders are not added
make_line_add_nothing(self, ln, converted_el) ==
    [self |-> self, line |-> ln, err |-> converted_el.err,
     warned |-> converted_el.warned]

make_line_add(self, ln, converted_el) ==
    [self |-> self,
     line |-> IF converted_el.err = "ok" THEN add_elements(ln, converted_el.out) ELSE ln,
     err |-> converted_el.err,
     warned |-> converted_el.warned]

\* adder = getattr(self, "add_" + el.type, None): the only attribute of the
\* loader whose name starts with add_ is the method add_elements
AdderTypes == {"elements"}

\* adder(el, line, buffer) with adder = self.add_elements: the loop over its
\* first argument fails, a view is not iterable
adder(self, ln, el) ==
    [self |-> self, line |-> ln, err |-> "TypeError", warned |-> FALSE]

\* a mutant of make_line_body: a view without adder and converter is passed over
make_line_body_skips_unsupported(self, ln, el) ==
    IF el.type \in AdderTypes THEN adder(builder_class_for(self, el), ln, el)
    ELSE IF el.type \notin ConverterTypes
    THEN [self |-> builder_class_for(self, el), line |-> ln, err |-> "ok", warned |-> FALSE]
    ELSE make_line_add(builder_class_for(self, el), ln,
                       converter(builder_class_for(self, el), el))

\* make_line, loop body for the view el that iter_elements yields: the adder
\* if there is one, else the converter, else the ValueError
make_line_body(self, ln, el) ==
    IF el.type \in AdderTypes THEN adder(builder_class_for(self, el), ln, el)
    ELSE make_line_add(builder_class_for(self, el), ln,
                       converter(builder_class_for(self, el), el))

\* iter_elements: the next record is visited, el is its view
Visit(el) ==
    /\ pc = "iter"
    /\ Len(src) < MaxSeq
    /\ src' = Append(src, el)
    /\ nrec' = nrec + 1
    /\ UNCHANGED <<cfg, line, todo, comp, out>>

\* iter_elements stays in its loop and yields nothing
NoYield ==
    UNCHANGED <<pc, yielded, inp>>

\* yield: the view goes to the loop body of make_line, iter_elements is
\* suspended until the body has run
Yield(view) ==
    /\ yielded' = Append(yielded, view)
    /\ inp' = view
    /\ pc' = "body"

\* a mutant of IterSkipMarker: the skipped marker ends the pending view
IterSkipMarker_ends_run ==
    \E r \in IterRecords :
        LET el == Named(r, Len(src) + 1)
            madelem == MadElem(el.name, el, cfg.name_prefix)
        IN  /\ Visit(el)
            /\ cfg.skip_markers /\ is_empty_marker(madelem)
            /\ IF last_element # Dummy THEN Yield(last_element) ELSE NoYield
            /\ last_element' = Dummy

\* if self.skip_markers and madelem.is_empty_marker(): pass
IterSkipMarker ==
    \E r \in IterRecords :
        LET el == Named(r, Len(src) + 1)
            madelem == MadElem(el.name, el, cfg.name_prefix)
        IN  /\ Visit(el)
            /\ cfg.skip_markers /\ is_empty_marker(madelem)
            /\ NoYield
            /\ UNCHANGED last_element

\* elif merge_drifts and both are drifts: last_element.l += el.l
IterMergeDrift ==
    \E r \in IterRecords :
        LET el == Named(r, Len(src) + 1)
            madelem == MadElem(el.name, el, cfg.name_prefix)
        IN  /\ Visit(el)
            /\ ~(cfg.skip_markers /\ is_empty_marker(madelem))
            /\ cfg.merge_drifts
            /\ last_element.type = "drift"
            /\ madelem.type = "drift"
            /\ last_element' = merge_drift(last_element, el)
            /\ NoYield

\* elif merge_multipoles and both are multipoles: merge_multipole; when the
\* merge is refused the pending view is yielded and the current one adopted
IterMergeMultipole ==
    \E r \in IterRecords :
        LET el == Named(r, Len(src) + 1)
            madelem == MadElem(el.name, el, cfg.name_prefix)
            m == merge_multipole(last_element, madelem)
        IN  /\ Visit(el)
            /\ ~(cfg.skip_markers /\ is_empty_marker(madelem))
            /\ ~(cfg.merge_drifts /\ last_element.type = "drift"
                    /\ madelem.type = "drift")
            /\ cfg.merge_multipoles
            /\ last_element.type = "multipole"
            /\ madelem.type = "multipole"
            /\ IF m.err # "ok"
               THEN /\ pc' = m.err
                    /\ last_element' = m.self
                    /\ UNCHANGED <<yielded, inp>>
               ELSE IF m.merged
               THEN /\ last_element' = m.self
                    /\ NoYield
               ELSE /\ Yield(m.self)
                    /\ last_element' = m.other

\* the conditions of the three branches above, all false
NoMergeNoSkip(madelem) ==
    /\ ~(cfg.skip_markers /\ is_empty_marker(madelem))
    /\ ~(cfg.merge_drifts /\ last_element.type = "drift" /\ madelem.type = "drift")
    /\ ~(cfg.merge_multipoles /\ last_element.type = "multipole"
            /\ madelem.type = "multipole")

\* elif madelem.type in self.ignore_madtypes: pass
IterIgnore ==
    \E r \in IterRecords :
        LET el == Named(r, Len(src) + 1)
            madelem == MadElem(el.name, el, cfg.name_prefix)
        IN  /\ Visit(el)
            /\ NoMergeNoSkip(madelem)
            /\ madelem.type \in cfg.ignore_madtypes
            /\ NoYield
            /\ UNCHANGED last_element

\* a mutant of IterAdopt: the else branch without the test of ignore_madtypes
\* before it
IterAdopt_ignored_types_too ==
    \E r \in IterRecords :
        LET el == Named(r, Len(src) + 1)
            madelem == MadElem(el.name, el, cfg.name_prefix)
        IN  /\ Visit(el)
            /\ NoMergeNoSkip(madelem)
            /\ IF last_element # Dummy THEN Yield(last_element) ELSE NoYield
            /\ last_element' = madelem

\* else: the pending view is yielded unless it is the sentinel, and the
\* current view becomes the pending one
IterAdopt ==
    \E r \in IterRecords :
        LET el == Named(r, Len(src) + 1)
            madelem == MadElem(el.name, el, cfg.name_prefix)
        IN  /\ Visit(el)
            /\ NoMergeNoSkip(madelem)
            /\ madelem.type \notin cfg.ignore_madtypes
            /\ IF last_element # Dummy THEN Yield(last_element) ELSE NoYield
            /\ last_element' = madelem

\* if len(self.sequence.expanded_elements) == 0: raise ValueError
IterNoElements ==
    /\ pc = "iter"
    /\ src = <<>>
    /\ pc' = "NoElements"
    /\ UNCHANGED <<cfg, line, todo, comp, nrec, src, last_element, yielded, inp, out>>

\* a mutant of IterFinish: iter_elements without the test for an empty sequence
IterFinish_without_length_test ==
    /\ pc = "iter"
    /\ yielded' = Append(yielded, last_element)
    /\ inp' = last_element
    /\ pc' = "last_body"
    /\ UNCHANGED <<cfg, line, todo, comp, nrec, src, last_element, out>>

\* the sequence is exhausted: yield last_element
IterFinish ==
    /\ pc = "iter"
    /\ Len(src) >= 1
    /\ yielded' = Append(yielded, last_element)
    /\ inp' = last_element
    /\ pc' = "last_body"
    /\ UNCHANGED <<cfg, line, todo, comp, nrec, src, last_element, out>>

\* the position after the loop body has run for the yielded view
AfterBody(b) ==
    /\ cfg' = b.self
    /\ line' = b.line
    /\ pc' = IF b.err # "ok" THEN b.err
             ELSE IF pc = "body" THEN "iter" ELSE "done"

\* make_line, loop body: the yielded view is converted and added; after the
\* last view make_line returns the line
MakeLineBody ==
    /\ pc \in {"body", "last_body"}
    /\ AfterBody(make_line_body(cfg, line, inp))
    /\ inp' = None
    /\ UNCHANGED <<todo, comp, nrec, src, last_element, yielded, out>>

IterNext ==
    \/ IterSkipMarker
    \/ IterMergeDrift
    \/ IterMergeMultipole
    \/ IterIgnore
    \/ IterAdopt
    \/ IterNoElements
    \/ IterFinish
    \/ MakeLineBody

SpecIter == IterInit /\ [][IterNext]_vars

(***************************************************************************)
(* Properties of the merges of iter_elements (SpecIter)                    *)
(***************************************************************************)
\* the records of s that iter_elements neither skips nor ignores
Kept(s) ==
    LET keep(el) ==
            /\ ~(cfg.skip_markers /\ is_empty_marker(MadElem(el.name, el, cfg.name_prefix)))
            /\ el.type \notin cfg.ignore_madtypes
    IN  SelectSeq(s, keep)

\* s[i..j] is a maximal run of adjacent records of the type
MaximalRun(s, type, i, j) ==
    /\ i <= j
    /\ \A k \in i..j : s[k].type = type
    /\ i = 1 \/ s[i - 1].type # type
    /\ j = Len(s) \/ s[j + 1].type # type

RECURSIVE SumOfLengths(_, _, _)
SumOfLengths(s, i, j) ==
    IF i > j THEN 0 ELSE s[i].l + SumOfLengths(s, i + 1, j)

\* the run s[i..j] of drifts is yielded as one drift view of the summed
\* length and converted to one Drift of that length
DriftRunMerged(s, i, j) ==
    LET name == s[i].name
        total == SumOfLengths(s, i, j)
        views == {k \in DOMAIN yielded :
                     /\ yielded[k].type = "drift"
                     /\ \E m \in i..j : yielded[k].name = s[m].name}
        elements == {k \in DOMAIN line.names :
                        \E m \in i..j : StartsWith(line.names[k], s[m].name)}
    IN  /\ Cardinality(views) = 1
        /\ \A k \in views : yielded[k].name = name /\ yielded[k].l = total
        /\ Cardinality(elements) = 1
        /\ \A k \in elements :
              /\ line.names[k] = name
              /\ line.dict[name].type = "Drift"
              /\ line.dict[name].attrs.length = total

\* C2, as stated: with drift merging enabled, every maximal run of
\* consecutive drift records of the source sequence is yielded as exactly
\* one drift view whose l is the sum of the lengths of the run, and is
\* converted to exactly one Drift of that length.
C2_ConsecutiveDriftsMerged ==
    (pc = "done" /\ cfg.merge_drifts) =>
        \A i, j \in DOMAIN src :
            MaximalRun(src, "drift", i, j) => DriftRunMerged(src, i, j)

\* C2, amended: with drift merging enabled and drift not an ignored type,
\* every maximal run of drift records that are adjacent once the skipped
\* empty markers and the records of ignored types are left out is yielded
\* as exactly one drift view whose l is the sum of the lengths of the run,
\* and is converted to exactly one Drift of that length.
C2_KeptDriftsMerged ==
    (pc = "done" /\ cfg.merge_drifts /\ "drift" \notin cfg.ignore_madtypes) =>
        \A i, j \in DOMAIN Kept(src) :
            MaximalRun(Kept(src), "drift", i, j) => DriftRunMerged(Kept(src), i, j)

\* two drifts of different lengths around a skipped marker became one Drift
C2_Witness ==
    /\ pc = "done"
    /\ cfg.merge_drifts
    /\ Len(src) = 3
    /\ src[1].type = "drift" /\ src[2].type = "marker" /\ src[3].type = "drift"
    /\ src[1].l # src[3].l
    /\ line.names = <<"e1">>
    /\ line.dict["e1"].attrs.length = src[1].l + src[3].l

\* the names of s[i..j] joined with underscores
RECURSIVE JoinedName(_, _, _)
JoinedName(s, i, j) ==
    IF i = j THEN s[i].name ELSE s[i].name \o "_" \o JoinedName(s, i + 1, j)

\* the elementwise sum of two strength lists, the shorter one padded with zeros
ElementwiseSum(a, b) ==
    [k \in 1..Max(Len(a), Len(b)) |->
        (IF k <= Len(a) THEN a[k] ELSE 0) + (IF k <= Len(b) THEN b[k] ELSE 0)]

RECURSIVE SumOfKnl(_, _, _)
SumOfKnl(s, i, j) ==
    IF i = j THEN s[i].knl ELSE ElementwiseSum(s[i].knl, SumOfKnl(s, i + 1, j))

RECURSIVE SumOfKsl(_, _, _)
SumOfKsl(s, i, j) ==
    IF i = j THEN s[i].ksl ELSE ElementwiseSum(s[i].ksl, SumOfKsl(s, i + 1, j))

\* C3: with multipole merging enabled, every multipole view that is yielded
\* stands for a run of adjacent multipole records: its knl and ksl are the
\* elementwise sums of the lists of the run and its name is the names of
\* the run joined with underscores.
C3_MergedStrengthsSummed ==
    cfg.merge_multipoles =>
        \A k \in DOMAIN yielded :
            yielded[k].type = "multipole" =>
                \E i, j \in DOMAIN Kept(src) :
                    /\ i <= j
                    /\ \A m \in i..j : Kept(src)[m].type = "multipole"
                    /\ yielded[k].name = JoinedName(Kept(src), i, j)
                    /\ yielded[k].knl = SumOfKnl(Kept(src), i, j)
                    /\ yielded[k].ksl = SumOfKsl(Kept(src), i, j)

\* the step visits a multipole while a multipole is pending and multipole
\* merging is enabled: merge_multipole is called
MergeMultipoleCalled ==
    /\ pc = "iter"
    /\ Len(src') = Len(src) + 1
    /\ cfg.merge_multipoles
    /\ last_element.type = "multipole"
    /\ src'[Len(src')].type = "multipole"

\* aperture, alignment errors, tilt and angle of the two views are identical
SameMergeParameters(a, b) ==
    /\ \A key \in {"aperture", "aper_offset", "aper_tilt", "aper_vx", "aper_vy",
                   "apertype", "align_errors", "tilt", "angle"} : a[key] = b[key]

\* C4: merge_multipole merges if and only if aperture parameters, alignment
\* errors, tilt and angle of the two views are identical; when it refuses,
\* neither view is changed, the pending view is yielded as it was and the
\* current view becomes the pending one.
C4_MergeOnlyIfIdentical ==
    [][MergeMultipoleCalled =>
        LET current == MadElem(src'[Len(src')].name, src'[Len(src')], cfg.name_prefix)
        IN  IF SameMergeParameters(last_element, current)
            THEN /\ yielded' = yielded
                 /\ last_element'.name = last_element.name \o "_" \o current.name
            ELSE /\ yielded' = Append(yielded, last_element)
                 /\ last_element' = current]_vars

\* a merged multipole was yielded because the next multipole has another tilt
C4_Witness ==
    /\ Len(src) = 3
    /\ Len(yielded) = 1
    /\ yielded[1].type = "multipole"
    /\ yielded[1].name = "e1_e2"
    /\ last_element.type = "multipole"
    /\ last_element.name = "e3"
    /\ last_element.tilt # yielded[1].tilt

(***************************************************************************)
(* SpecExpr: expression-linked builders are materialized, and the          *)
(* variable table is assigned afterwards                                   *)
(***************************************************************************)
ExprVars == {"v1", "v2"}
ExprValues == 0..2

\* builders as the converters make them with enable_expressions: a scalar
\* expression, lists that mix expressions and literals, and an array
ExprBuilders ==
    {Builder("ElementBuilderWithExpr", "d", "Drift", [length |-> Expr(2, "v1", 0)]),
     Builder("ElementBuilderWithExpr", "m", "Multipole",
             [knl |-> List(<<Expr(1, "v1", 0), Num(3)>>),
              ksl |-> List(<<Num(0), Expr(1, "v2", 1)>>),
              length |-> Num(0)]),
     Builder("ElementBuilderWithExpr", "t", "FirstOrderTaylorMap",
             [length |-> Expr(1, "v2", 0),
              m0 |-> Array(<<Expr(1, "v1", 1), Num(0)>>)])}

ExprInit ==
    /\ cfg = [DefaultCfg EXCEPT !.enable_expressions = TRUE,
                                !.Builder = "ElementBuilderWithExpr"]
    /\ line = [EmptyLine EXCEPT !.var_values = [v \in ExprVars |-> 1]]
    /\ pc = "loop"
    /\ todo = <<>>
    /\ comp = None
    /\ nrec = 0
    /\ src = <<>>
    /\ last_element = None
    /\ yielded = <<>>
    /\ inp = None
    /\ out = None

\* add_elements: el.add_to_line(line, buffer) of an expression-linked
\* builder; src remembers the builder and the name it was inserted under
ExprAddToLine ==
    /\ pc = "loop"
    /\ nrec < MaxRecords
    /\ \E b \in ExprBuilders :
          /\ line' = add_to_line(line, b)
          /\ src' = Append(src, [name |-> generate_repeated_name(line, b.name),
                                 attrs |-> b.attrs])
    /\ nrec' = nrec + 1
    /\ UNCHANGED <<cfg, pc, todo, comp, last_element, yielded, inp, out>>

\* line.vars[var] = n, at any time after an element was materialized
ExprSetVar ==
    /\ pc = "loop"
    /\ \E var \in ExprVars, n \in ExprValues :
          /\ line.var_values[var] # n
          /\ line' = SetVar(line, var, n)
    /\ UNCHANGED <<cfg, pc, todo, comp, nrec, src, last_element, yielded, inp, out>>

ExprNext ==
    \/ ExprAddToLine
    \/ ExprSetVar

SpecExpr == ExprInit /\ [][ExprNext]_vars

\* the value an attribute given x has while the variable table is var_values
CurrentValue(x, var_values) ==
    LET item(y) == IF is_expr(y) THEN Num(Eval(y, var_values)) ELSE y
    IN  IF x.t = "list" THEN List([i \in DOMAIN x.items |-> item(x.items[i])])
        ELSE IF x.t = "array" THEN Array([i \in DOMAIN x.items |-> item(x.items[i])])
        ELSE item(x)

\* C5: every attribute of an element materialized by the expression-linked
\* builder that was given an expression (a scalar, or an item of a list or
\* an array) equals the current value of that expression after any
\* assignments to the variable table, and an attribute or item given a
\* literal keeps the literal.
C5_AttributesFollowVariables ==
    \A i \in DOMAIN src :
        /\ src[i].name \in DOMAIN line.dict
        /\ \A k \in DOMAIN src[i].attrs :
              line.dict[src[i].name].attrs[k] = CurrentValue(src[i].attrs[k], line.var_values)

\* both variables were assigned after a multipole, a map and two drifts of
\* the same name were materialized, and the attributes show the new values
C5_Witness ==
    /\ line.var_values = [v \in ExprVars |-> 2]
    /\ {"d", "d:0", "m"} \subseteq DOMAIN line.dict
    /\ line.dict["d:0"].attrs.length = Num(4)
    /\ line.dict["m"].attrs.knl = List(<<Num(2), Num(3)>>)
    /\ line.dict["m"].attrs.ksl = List(<<Num(0), Num(3)>>)

(***************************************************************************)
(* SpecAlign: an Alignment is built for an element and asked for its       *)
(* entry and exit transformations                                          *)
(***************************************************************************)
\* the elements of SpecAlign: with and without a tilt parameter, with and
\* without a record of the error table
AlignElems ==
    {Elem("e", "marker", NoAttrs)}
    \cup {Elem("e", "multipole", [tilt |-> t] @@ MultipolePars(<<1>>, <<0>>)) : t \in -1..1}
    \cup {Elem("e", "multipole",
               [tilt |-> t, align_errors |-> AlignErrors(dx, dy, dpsi)]
                   @@ MultipolePars(<<1>>, <<0>>))
            : t \in -1..1, dx \in -1..1, dy \in 0..1, dpsi \in -1..0}

AlignInit ==
    /\ cfg = DefaultCfg
    /\ line = EmptyLine
    /\ pc = "start"
    /\ todo = <<>>
    /\ comp = None
    /\ nrec = 0
    /\ src = <<>>
    /\ last_element = None
    /\ yielded = <<>>
    /\ inp \in [mad_el : AlignElems, enable_errors : BOOLEAN,
                custom_tilt : {None, Some(0), Some(1)}]
    /\ out = None

\* align = Alignment(mad_el, enable_errors, classes, Builder, custom_tilt);
\* align.entry(); align.exit()
AlignmentBuild ==
    /\ pc = "start"
    /\ LET align == Alignment(inp.mad_el, inp.enable_errors, inp.custom_tilt)
       IN  out' = [align |-> align,
                   entry |-> Alignment_entry(align, cfg.Builder),
                   exit |-> Alignment_exit(align, cfg.Builder)]
    /\ pc' = "done"
    /\ UNCHANGED <<cfg, line, todo, comp, nrec, src, last_element, yielded, inp>>

AlignNext ==
    \/ AlignmentBuild

SpecAlign == AlignInit /\ [][AlignNext]_vars

\* builder b undoes builder a: the same target type, every parameter negated
Undoes(b, a) ==
    /\ b.type = a.type
    /\ DOMAIN b.attrs = DOMAIN a.attrs
    /\ \A k \in DOMAIN a.attrs : b.attrs[k] = -a.attrs[k]

\* C8: exit() lists the builders of entry() in reverse order, each with the
\* same target type and every parameter negated; entry() has the rotation
\* before the offset; the rotation is present in both if and only if the
\* tilt is nonzero, the offset if and only if dx or dy is nonzero.
C8_ExitInvertsEntry ==
    pc = "done" =>
        LET entry == out.entry
            exit  == out.exit
            n     == Len(entry)
            rotations(bs) == {i \in DOMAIN bs : bs[i].type = "SRotation"}
            offsets(bs)   == {i \in DOMAIN bs : bs[i].type = "XYShift"}
        IN  /\ Len(exit) = n
            /\ \A i \in 1..n : Undoes(exit[n + 1 - i], entry[i])
            /\ \A i \in rotations(entry), j \in offsets(entry) : i < j
            /\ \A i \in rotations(exit), j \in offsets(exit) : j < i
            /\ Cardinality(rotations(entry)) = (IF out.align.tilt # 0 THEN 1 ELSE 0)
            /\ Cardinality(offsets(entry)) =
                   (IF out.align.dx # 0 \/ out.align.dy # 0 THEN 1 ELSE 0)
            /\ n = Cardinality(rotations(entry)) + Cardinality(offsets(entry))
            /\ \A i \in rotations(entry) : entry[i].attrs.angle = out.align.tilt
            /\ \A i \in offsets(entry) :
                  entry[i].attrs = [dx |-> out.align.dx, dy |-> out.align.dy]

\* an element with tilt, custom tilt and an error record: entry() is the
\* rotation then the offset, exit() the negated offset then the rotation
C8_Witness ==
    /\ pc = "done"
    /\ inp.enable_errors
    /\ inp.custom_tilt = Some(1)
    /\ inp.mad_el.type = "multipole"
    /\ inp.mad_el.tilt = 1
    /\ inp.mad_el.align_errors # None
    /\ inp.mad_el.align_errors.dpsi = -1
    /\ Len(out.entry) = 2
    /\ out.entry[1].attrs.angle = 45
    /\ out.entry[2].attrs = [dx |-> -1, dy |-> 1]
    /\ out.exit[1].attrs = [dx |-> 1, dy |-> -1]
    /\ out.exit[2].attrs.angle = -45

(***************************************************************************)
(* SpecConv: one record of each convertible type is converted and its      *)
(* builders are added to the line                                          *)
(***************************************************************************)
\* lengths in half units: zero and two nonzero lengths
ConvLengths == {0, 2, 4}

BendPars ==
    [angle |-> 1, k0 |-> 0, k1 |-> 0, k2 |-> 0, e1 |-> 0, e2 |-> 0, fint |-> 0,
     fintx |-> -1, hgap |-> 0]

\* the parameters the converter of the type reads
ConvPars(type) ==
    CASE type = "quadrupole" -> {[k1 |-> 1, k1s |-> 0]}
      [] type \in {"rbend", "sbend"} -> {BendPars}
      [] type = "sextupole" -> {[k2 |-> 1, k2s |-> 0]}
      [] type = "octupole" -> {[k3 |-> 1, k3s |-> 0]}
      [] type = "solenoid" -> {[ks |-> 1, ksi |-> 0]}
      [] type = "multipole" -> {MultipolePars(<<1>>, <<0>>)}
      [] type \in {"kicker", "tkicker"} -> {[hkick |-> 1, vkick |-> 0, lrad |-> 0]}
      [] type = "hkicker" -> {[kick |-> 1, hkick |-> h, lrad |-> 0] : h \in 0..1}
      [] type = "vkicker" -> {[kick |-> 1, vkick |-> v, lrad |-> 0] : v \in 0..1}
      [] type = "dipedge" -> {[h |-> 1, e1 |-> 0, hgap |-> 0, fint |-> 0]}
      [] type = "rfcavity" -> {[freq |-> 1, harmon |-> 0, volt |-> 1, lag |-> 0]}
      [] type = "rfmultipole" ->
             {[harmon |-> 0, freq |-> 1, volt |-> 1, lag |-> 0, knl |-> <<1>>,
               ksl |-> <<0>>, pnl |-> <<0>>, psl |-> <<0>>]}
      [] type = "wire" ->
             {[L_phy |-> <<1>>, L_int |-> <<1>>, current |-> <<1>>, xma |-> <<1>>,
               yma |-> <<0>>]}
      [] type = "crabcavity" -> {[tilt |-> 0, freq |-> 1, volt |-> 1, lag |-> 0]}
      [] type \in {"beambeam", "placeholder"} -> {[slot_id |-> 0]}
      [] type \in {"srotation", "xrotation", "yrotation"} -> {[angle |-> 1]}
      [] type = "translation" -> {[dx |-> 1, dy |-> 0, ds |-> 0]}
      [] type = "matrix" -> {[kick1 |-> 1, rm11 |-> 1, rm12 |-> 2]}
      [] type = "nllens" -> {[knll |-> 1, cnll |-> 1]}
      [] OTHER -> {NoAttrs}

\* the names of the records: a plain one, and one that starts like the
\* name of a drift slice
ConvNames == {"e", "drift_e"}

ConvRecords ==
    UNION {{Elem(name, type, [l |-> l] @@ pars)
               : name \in ConvNames, l \in ConvLengths, pars \in ConvPars(type)}
              : type \in ConverterTypes}

ConvConfigs ==
    {[DefaultCfg EXCEPT !.allow_thick = thick, !.use_compound_elements = uc,
                        !.name_prefix = prefix]
        : thick \in BOOLEAN, uc \in BOOLEAN, prefix \in {None, Some("p_")}}

ConvInit ==
    /\ cfg \in ConvConfigs
    /\ line = EmptyLine
    /\ pc = "start"
    /\ todo = <<>>
    /\ comp = None
    /\ nrec = 0
    /\ src = <<>>
    /\ last_element = None
    /\ yielded = <<>>
    /\ inp \in ConvRecords
    /\ out = None

\* the position after converter(el) has returned or raised
AfterConvert(converted_el) ==
    /\ out' = converted_el
    /\ pc' = IF converted_el.err = "ok" THEN "converted" ELSE converted_el.err

\* make_line, loop body: converted_el = converter(el)
ConvertRecord ==
    /\ pc = "start"
    /\ AfterConvert(converter(cfg, MadElem(inp.name, inp, cfg.name_prefix)))
    /\ UNCHANGED <<cfg, line, todo, comp, nrec, src, last_element, yielded, inp>>

\* make_line, loop body: self.add_elements(converted_el, line, buffer)
ConvAddElements ==
    /\ pc = "converted"
    /\ line' = add_elements(line, out.out)
    /\ pc' = "added"
    /\ UNCHANGED <<cfg, todo, comp, nrec, src, last_element, yielded, inp, out>>

ConvNext ==
    \/ ConvertRecord
    \/ ConvAddElements

SpecConv == ConvInit /\ [][ConvNext]_vars

\* the types whose converter has a rule that slices a nonzero length into drifts
SlicingRuleTypes == {"kicker", "tkicker", "hkicker", "vkicker", "octupole", "rfcavity"}

\* the types that stand for a magnet or a thin element and have no slicing
\* rule: what is left of the converter types without the drifts, the
\* drift-like instruments, the markers and the coordinate transformations
NoSlicingRuleTypes ==
    {"quadrupole", "rbend", "sbend", "sextupole", "solenoid", "multipole",
     "rfmultipole", "wire", "crabcavity", "beambeam"}

\* C9: with thick elements disabled, a record of nonzero length whose type
\* has a converter but no slicing rule makes the conversion fail with the
\* thick-policy error, the one that asks for allow_thick.
C9_ThickPolicyError ==
    (out # None /\ ~cfg.allow_thick /\ inp.l # 0 /\ inp.type \in NoSlicingRuleTypes)
        => out.err = "ThickDisabled"

\* the core builders of a conversion, inside or outside a compound
Core(converted_el) ==
    IF Len(converted_el.out) = 1 /\ converted_el.out[1].cls = "CompoundElementBuilder"
    THEN converted_el.out[1].core
    ELSE converted_el.out

\* the conversion gave a drift of half the length, the thin element under
\* the name of the record, and a second drift of half the length
Sliced(converted_el, el) ==
    LET core == Core(converted_el)
    IN  /\ converted_el.err = "ok"
        /\ Len(core) = 3
        /\ core[1].type = "Drift" /\ core[3].type = "Drift"
        /\ core[1].attrs.length * 2 = el.l
        /\ core[3].attrs.length * 2 = el.l
        /\ core[2].name = MadElem(el.name, el, cfg.name_prefix).name
        /\ core[2].type \in {"Multipole", "Cavity"}

\* the hkicker and vkicker converters refuse a record with hkick or vkick set
ParametersRefused(converted_el) ==
    converted_el.err \in {"HkickerWithHkick", "VkickerWithVkick"}

\* C10, as stated: with thick elements disabled, a record of nonzero length
\* of a type with a slicing rule is converted without error into a drift of
\* length l/2, the thin kick and a drift of length l/2.
C10_SlicedWhenThickDisabled ==
    (out # None /\ ~cfg.allow_thick /\ inp.l # 0 /\ inp.type \in SlicingRuleTypes
        /\ ~ParametersRefused(out))
        => Sliced(out, inp)

\* C10, amended: a record of nonzero length of a type with a slicing rule
\* is converted without error into a drift of length l/2, the thin kick and
\* a drift of length l/2 if it is an rfcavity, or if thick elements are
\* enabled; with thick elements disabled a kicker, tkicker, hkicker,
\* vkicker or octupole of nonzero length fails with the thick-policy error.
C10_SlicedOrThickPolicyError ==
    (out # None /\ inp.l # 0 /\ inp.type \in SlicingRuleTypes /\ ~ParametersRefused(out))
        => IF inp.type = "rfcavity" \/ cfg.allow_thick
           THEN Sliced(out, inp)
           ELSE out.err = "ThickDisabled"

\* thick elements are disabled and the three builders of an rfcavity of
\* length 4 are in the line, the drifts with length 2
C10_Witness ==
    /\ pc = "added"
    /\ ~cfg.allow_thick
    /\ ~cfg.use_compound_elements
    /\ inp.type = "rfcavity"
    /\ inp.l = 4
    /\ line.names = <<"drift_e..1", "e", "drift_e..2">>
    /\ line.dict["drift_e..1"].attrs.length = 2
    /\ line.dict["drift_e..2"].attrs.length = 2
    /\ line.dict["e"].type = "Cavity"

\* the types whose converter starts with _assert_element_is_thin
ThinTypes == {"multipole", "rfmultipole", "wire", "crabcavity", "beambeam"}

\* C11, as stated: a record of a thin type with nonzero length is rejected
\* only when thick elements are disabled; when they are enabled it is
\* converted.
C11_ThinTypeConvertedWhenThickEnabled ==
    (out # None /\ inp.type \in ThinTypes /\ inp.l # 0)
        => IF cfg.allow_thick THEN out.err = "ok" ELSE out.err = "ThickDisabled"

\* C11, amended: a record of a thin type with nonzero length is rejected
\* in both modes and nothing is built for it: with the thick-policy error
\* when thick elements are disabled, with the error that thick elements of
\* this type are not yet supported when they are enabled.
C11_ThinTypeRejectedInBothModes ==
    (out # None /\ inp.type \in ThinTypes /\ inp.l # 0)
        => /\ out.out = <<>>
           /\ line.names = <<>>
           /\ out.err = IF cfg.allow_thick THEN "ThickNotYetSupported" ELSE "ThickDisabled"

\* thick elements are enabled and a wire of nonzero length was rejected
C11_Witness ==
    /\ pc = "ThickNotYetSupported"
    /\ cfg.allow_thick
    /\ inp.type = "wire"
    /\ inp.l = 2
    /\ out.out = <<>>

\* C12: a record of length zero is never passed to the code that builds a
\* thick element, whatever the configuration: not a quadrupole, not a bend,
\* not a sextupole, not a solenoid; in particular that code never fails on
\* the zero length.
C12_ZeroLengthNeverThick ==
    (out # None /\ inp.l = 0
        /\ inp.type \in {"quadrupole", "rbend", "sbend", "sextupole", "solenoid"})
        => /\ ~thick_code_entered(cfg, MadElem(inp.name, inp, cfg.name_prefix))
           /\ out.err # "ZeroDivisionError"

\* the solenoid of length zero was converted with a warning into one core
\* builder, a Drift of length 0 under the name of the view
SolenoidAsDrift ==
    /\ out.err = "ok"
    /\ out.warned
    /\ Core(out) = <<Builder(cfg.Builder, MadElem(inp.name, inp, cfg.name_prefix).name,
                             "Drift", [length |-> 0])>>

\* C13, as stated: with the overlays disabled and default options, a
\* solenoid of length zero is translated without an error and with a
\* warning, and exactly one element is added to the line, a Drift of
\* length 0.
C13_ZeroSolenoidIsOneDrift ==
    (out # None /\ inp.type = "solenoid" /\ inp.l = 0 /\ cfg = DefaultCfg)
        => /\ SolenoidAsDrift
           /\ pc = "added" =>
                 /\ Len(line.names) = 1
                 /\ line.dict[line.names[1]].type = "Drift"
                 /\ line.dict[line.names[1]].attrs.length = 0

\* C13, amended: with the overlays disabled, a solenoid of length zero is
\* translated without an error and with a warning into exactly one core
\* element, a Drift of length 0; with compound elements enabled (the
\* default) and a name that does not start with drift_, the line receives
\* it between the entry and exit markers of its compound, three elements;
\* otherwise the line receives the Drift alone.
C13_ZeroSolenoidIsDriftInCompound ==
    (out # None /\ inp.type = "solenoid" /\ inp.l = 0)
        => LET name == MadElem(inp.name, inp, cfg.name_prefix).name
               wrapped == cfg.use_compound_elements /\ ~StartsWith(name, "drift_")
           IN  /\ SolenoidAsDrift
               /\ pc = "added" =>
                     /\ line.names = IF wrapped
                                     THEN <<name \o "_entry", name, name \o "_exit">>
                                     ELSE <<name>>
                     /\ line.dict[name].type = "Drift"
                     /\ line.dict[name].attrs.length = 0
                     /\ wrapped => /\ line.dict[name \o "_entry"].type = "Marker"
                                   /\ line.dict[name \o "_exit"].type = "Marker"
                                   /\ name \in DOMAIN line.compounds

\* default options: the Drift of the solenoid e is in the line between the
\* two markers of its compound
C13_Witness ==
    /\ pc = "added"
    /\ cfg = DefaultCfg
    /\ inp.type = "solenoid"
    /\ inp.l = 0
    /\ out.warned
    /\ line.names = <<"e_entry", "e", "e_exit">>
    /\ line.dict["e"].type = "Drift"

\* C19: when a name prefix is configured, the name of every element
\* appended to the line starts with the prefix: core elements, the markers
\* of a compound, transformations, aperture limits and drift slices.
C19_EveryNamePrefixed ==
    cfg.name_prefix # None =>
        \A i \in DOMAIN line.names : StartsWith(line.names[i], cfg.name_prefix.v)

(***************************************************************************)
(* SpecNew: the loader is constructed from its options, then make_line     *)
(* creates the line                                                        *)
(***************************************************************************)
\* an option that may be left unset
Tristate == {None, Some(TRUE), Some(FALSE)}

NewOptions ==
    [enable_expressions : BOOLEAN, enable_errors : Tristate,
     enable_field_errors : Tristate, enable_align_errors : Tristate,
     allow_thick : BOOLEAN,
     expressions_for_element_types : {None, Some({}), Some({"multipole"})}]

\* __init__: enable_field_errors and enable_align_errors after the defaults
\* are filled in from enable_errors
filled_in(option, enable_errors) ==
    LET inherited == IF enable_errors # None /\ option = None THEN enable_errors ELSE option
    IN  IF inherited = None THEN FALSE ELSE inherited.v

\* a mutant of MadLoader.__init__: enable_errors is not looked at
MadLoader_init_without_enable_errors(opts) ==
    LET self == [DefaultCfg EXCEPT
                    !.enable_expressions = opts.enable_expressions,
                    !.enable_field_errors = filled_in(opts.enable_field_errors, None),
                    !.enable_align_errors = filled_in(opts.enable_align_errors, None),
                    !.allow_thick = opts.allow_thick,
                    !.expressions_for_element_types = opts.expressions_for_element_types]
    IN  IF opts.allow_thick /\ self.enable_field_errors
        THEN [err |-> "FieldErrorsWithThick", self |-> None]
        ELSE IF opts.expressions_for_element_types # None /\ ~opts.enable_expressions
        THEN [err |-> "AssertionError", self |-> None]
        ELSE [err |-> "ok", self |-> self]

\* MadLoader.__init__: the exception raised, or the loader
MadLoader_init(opts) ==
    LET self == [DefaultCfg EXCEPT
                    !.enable_expressions = opts.enable_expressions,
                    !.enable_field_errors =
                        filled_in(opts.enable_field_errors, opts.enable_errors),
                    !.enable_align_errors =
                        filled_in(opts.enable_align_errors, opts.enable_errors),
                    !.allow_thick = opts.allow_thick,
                    !.expressions_for_element_types = opts.expressions_for_element_types]
    IN  IF opts.allow_thick /\ self.enable_field_errors
        THEN [err |-> "FieldErrorsWithThick", self |-> None]
        ELSE IF opts.expressions_for_element_types # None /\ ~opts.enable_expressions
        THEN [err |-> "AssertionError", self |-> None]
        ELSE [err |-> "ok", self |-> self]

NewInit ==
    /\ cfg = None
    /\ line = None
    /\ pc = "new"
    /\ todo = <<>>
    /\ comp = None
    /\ nrec = 0
    /\ src = <<>>
    /\ last_element = None
    /\ yielded = <<>>
    /\ inp \in NewOptions
    /\ out = None

\* MadLoader(sequence, ...)
Construct ==
    /\ pc = "new"
    /\ out' = MadLoader_init(inp)
    /\ cfg' = out'.self
    /\ pc' = IF out'.err = "ok" THEN "constructed" ELSE out'.err
    /\ UNCHANGED <<line, todo, comp, nrec, src, last_element, yielded, inp>>

\* make_line, up to the loop: the line is created and the builder class set
MakeLineStart ==
    /\ pc = "constructed"
    /\ line' = EmptyLine
    /\ cfg' = [cfg EXCEPT !.Builder = IF cfg.enable_expressions
                                      THEN "ElementBuilderWithExpr"
                                      ELSE "ElementBuilder"]
    /\ pc' = "iter"
    /\ UNCHANGED <<todo, comp, nrec, src, last_element, yielded, inp, out>>

NewNext ==
    \/ Construct
    \/ MakeLineStart

SpecNew == NewInit /\ [][NewNext]_vars

\* C14: the construction fails exactly when allow_thick comes with an
\* effective field-error overlay (enable_field_errors true, or enable_errors
\* true with enable_field_errors unset) or when an allow-list of types is
\* given without enable_expressions; when it fails there is no loader, no
\* line and no record has been read.
C14_ConstructionFailures ==
    pc # "new" =>
        LET field_errors == \/ inp.enable_field_errors = Some(TRUE)
                            \/ inp.enable_errors = Some(TRUE) /\ inp.enable_field_errors = None
            conflict == \/ inp.allow_thick /\ field_errors
                        \/ inp.expressions_for_element_types # None /\ ~inp.enable_expressions
        IN  /\ conflict <=> out.err # "ok"
            /\ conflict => cfg = None /\ line = None /\ src = <<>> /\ nrec = 0
                              /\ pc \notin {"constructed", "iter"}
            /\ ~conflict => cfg # None

\* allow_thick with enable_errors and enable_field_errors unset: refused
C14_Witness ==
    /\ pc = "FieldErrorsWithThick"
    /\ inp.allow_thick
    /\ inp.enable_errors = Some(TRUE)
    /\ inp.enable_field_errors = None
    /\ cfg = None
    /\ line = None

\* C15: for every view that is flushed, make_line uses the adder of its
\* type if there is one, else the converter; a type without either stops
\* the translation with an error that names the type, nothing is appended
\* for the view, and no record is translated after an error.
C15_UnsupportedTypeIsFatal ==
    [][/\ pc \in {"iter", "body", "last_body"}
       /\ pc \in {"body", "last_body"} =>
             IF inp.type \in AdderTypes
             THEN pc' = "TypeError" /\ line' = line
             ELSE IF inp.type \in ConverterTypes
             THEN /\ pc' # "Element " \o inp.type \o " not supported"
                  /\ pc' \in {"iter", "done"} => Len(line'.names) > Len(line.names)
             ELSE /\ pc' = "Element " \o inp.type \o " not supported"
                  /\ line' = line]_vars

\* the second record is a twcavity: the translation stopped at it with the
\* element of the first record in the line and nothing else
C15_Witness ==
    /\ pc = "Element twcavity not supported"
    /\ Len(src) = 3
    /\ src[1].type = "drift"
    /\ src[2].type = "twcavity"
    /\ Len(yielded) = 2
    /\ line.names = <<"e1">>

\* C16: a sequence without records makes the translation fail before a
\* record is visited and before an element is appended to the line: with no
\* record the loader is either about to test the length or has failed, and
\* at the failure nothing was visited, yielded, made pending or appended.
C16_EmptySequenceFails ==
    /\ src = <<>> => /\ pc \in {"iter", "NoElements"}
                     /\ nrec = 0
                     /\ yielded = <<>>
                     /\ last_element = Dummy
                     /\ line.names = <<>>
    /\ pc = "NoElements" => src = <<>>

\* the translation of an empty sequence has failed
C16_Witness ==
    /\ pc = "NoElements"
    /\ src = <<>>
    /\ line.names = <<>>

\* C18: a record whose type is in ignore_madtypes is never yielded, never
\* becomes the pending view and adds nothing to a merged view: no yielded or
\* pending view has an ignored type, and the visit of such a record leaves
\* the pending view and the yielded views as they were.
C18_IgnoredTypesDropped ==
    /\ [](/\ last_element.type \notin cfg.ignore_madtypes
          /\ \A i \in 1..Len(yielded) : yielded[i].type \notin cfg.ignore_madtypes)
    /\ [][(/\ Len(src') = Len(src) + 1
           /\ src'[Len(src')].type \in cfg.ignore_madtypes)
          => (last_element' = last_element /\ yielded' = yielded)]_vars

\* drifts are ignored and the second of three records is a drift: the
\* translation is done with the other two records yielded
C18_Witness ==
    /\ pc = "done"
    /\ cfg.ignore_madtypes = {"drift"}
    /\ Len(src) = 3
    /\ src[1].type = "multipole"
    /\ src[2].type = "drift"
    /\ src[3].type = "marker"
    /\ Len(yielded) = 2
    /\ yielded[1].name = "e1"
    /\ yielded[2].name = "e3"

(***************************************************************************)
(* SpecAper: records with an aperture, converted with apertures enabled    *)
(***************************************************************************)
\* the shapes with a conversion, an element type without compound (drift),
\* element types with compound (marker, monitor), and a keyword MAD-X knows
\* and the loader does not (lhcscreen)
AperTypes ==
    {"rectangle", "racetrack", "ellipse", "circle", "rectellipse", "octagon",
     "polygon", "drift", "marker", "monitor", "lhcscreen"}

AperRecords ==
    {Elem(name, type, [apertype |-> apertype, aperture |-> aperture,
                       aper_vx |-> vx, aper_vy |-> vx, aper_tilt |-> tilt,
                       align_errors |-> ae])
        : name \in ConvNames, type \in {"marker", "monitor"}, apertype \in AperTypes,
          aperture \in {<<0>>, <<1>>, <<2, 1, 1, 1>>},
          vx \in {<<-1>>, <<1, 2>>, <<1, 2, 3>>}, tilt \in 0..1,
          ae \in {None, AlignErrors(1, 0, 0)}}

AperConfigs ==
    {[DefaultCfg EXCEPT !.enable_apertures = ap, !.use_compound_elements = uc,
                        !.enable_align_errors = al]
        : ap \in BOOLEAN, uc \in BOOLEAN, al \in BOOLEAN}

AperInit ==
    /\ cfg \in AperConfigs
    /\ line = EmptyLine
    /\ pc = "start"
    /\ todo = <<>>
    /\ comp = None
    /\ nrec = 0
    /\ src = <<>>
    /\ last_element = None
    /\ yielded = <<>>
    /\ inp \in AperRecords
    /\ out = None

SpecAper == AperInit /\ [][ConvNext]_vars

ApertureShapes ==
    {"rectangle", "racetrack", "ellipse", "circle", "rectellipse", "octagon", "polygon"}

\* the aperture of the record was asked for (apertures enabled and the
\* record has one) and the record has no vertex list
ApertureBuiltFromKeyword ==
    /\ pc # "start"
    /\ cfg.enable_apertures
    /\ has_aperture(inp)
    /\ Len(inp.aper_vx) <= 2

\* C17: when the aperture of a record without vertex list is built, a shape
\* keyword outside rectangle, racetrack, ellipse, circle, rectellipse,
\* octagon, polygon is the error 'Aperture type not supported', also when
\* the keyword is the name of an element type that has a converter.
C17_UnknownShapeRejected ==
    (ApertureBuiltFromKeyword /\ inp.apertype \notin ApertureShapes)
        => pc = "ApertureTypeNotSupported"

(***************************************************************************)
(* SpecAllow: make_line with enable_expressions and an allow-list of       *)
(* element types, on records whose length may be a deferred expression.    *)
(* The records are drifts and monitors, so the marker, multipole and       *)
(* ignore branches of iter_elements are never taken.                       *)
(***************************************************************************)
\* elem.cmdpar[k]: the value and the deferred expression, if there is one
Par(value, expr) == [value |-> value, expr |-> expr]

\* the lengths: the literal 2, and 2 * v1, which is 2 when the sequence is read
AllowLengths == {Par(2, None), Par(2, Some(Expr(2, "v1", 0)))}

AllowRecords ==
    {[name |-> "", type |-> type, cmdpar |-> [l |-> l]]
        : type \in {"drift", "monitor"}, l \in AllowLengths}

AllowConfigs ==
    {[DefaultCfg EXCEPT !.enable_expressions = TRUE,
                        !.Builder = "ElementBuilderWithExpr",
                        !.merge_drifts = md,
                        !.expressions_for_element_types = types]
        : md \in BOOLEAN,
          types \in {None, Some({}), Some({"drift"}), Some({"monitor"})}}

\* MadElem.__init__ with the evaluator of make_line; attrs are the instance
\* attributes assigned later, which hide the parameters of the same name
MadElemWithEval(name, elem, madeval, name_prefix) ==
    [name |-> IF name_prefix = None THEN name ELSE name_prefix.v \o name,
     type |-> elem.type, elem |-> elem, madeval |-> madeval, attrs |-> NoAttrs]

\* MadElem.__getattr__ on a number parameter, called when the view has no
\* instance attribute k
MadElem_getattr(view, k) ==
    IF k \in DOMAIN view.attrs THEN view.attrs[k]
    ELSE LET par == view.elem.cmdpar[k]
         IN  IF view.madeval /\ par.expr # None THEN par.expr.v
             ELSE Num(par.value)

\* x + n for an expression or a literal x and a float n
Plus(x, n) ==
    IF is_expr(x) THEN Expr(x.k, x.var, x.c + n) ELSE Num(x.v + n)

\* last_element.l += el.l, el the record of the sequence
merge_drift_with_eval(last, el) ==
    [last EXCEPT !.attrs = ("l" :> Plus(MadElem_getattr(last, "l"), el.cmdpar.l.value))]

\* make_line: el.madeval = madeval for a listed type, None for another one
set_madeval(self, el) ==
    IF self.expressions_for_element_types # None
    THEN [el EXCEPT !.madeval = /\ self.enable_expressions
                                /\ el.type \in self.expressions_for_element_types.v]
    ELSE el

\* what the converter reads from the view
AttributesRead(el) ==
    Elem(el.name, el.type, [l |-> MadElem_getattr(el, "l")])

AllowInit ==
    /\ cfg \in AllowConfigs
    /\ line = [EmptyLine EXCEPT !.var_values = LineVarValues]
    /\ pc = "iter"
    /\ todo = <<>>
    /\ comp = None
    /\ nrec = 0
    /\ src = <<>>
    /\ last_element = Dummy
    /\ yielded = <<>>
    /\ inp = None
    /\ out = None

\* elif merge_drifts and both are drifts: last_element.l += el.l
AllowMergeDrift ==
    \E r \in AllowRecords :
        LET el == Named(r, Len(src) + 1)
            madelem == MadElemWithEval(el.name, el, cfg.enable_expressions, cfg.name_prefix)
        IN  /\ Visit(el)
            /\ ~(cfg.skip_markers /\ madelem.type = "marker")
            /\ cfg.merge_drifts
            /\ last_element.type = "drift"
            /\ madelem.type = "drift"
            /\ last_element' = merge_drift_with_eval(last_element, el)
            /\ NoYield

\* else: the pending view is yielded unless it is the sentinel, and the
\* current view becomes the pending one
AllowAdopt ==
    \E r \in AllowRecords :
        LET el == Named(r, Len(src) + 1)
            madelem == MadElemWithEval(el.name, el, cfg.enable_expressions, cfg.name_prefix)
        IN  /\ Visit(el)
            /\ ~(cfg.skip_markers /\ madelem.type = "marker")
            /\ ~(cfg.merge_drifts /\ last_element.type = "drift" /\ madelem.type = "drift")
            /\ ~(cfg.merge_multipoles /\ last_element.type = "multipole"
                    /\ madelem.type = "multipole")
            /\ madelem.type \notin cfg.ignore_madtypes
            /\ IF last_element # Dummy THEN Yield(last_element) ELSE NoYield
            /\ last_element' = madelem

\* make_line, loop body: the builder class and el.madeval are set from the
\* allow-list, the view is converted and the builders are added to the line
AllowBody ==
    /\ pc \in {"body", "last_body"}
    /\ AfterBody(make_line_body(cfg, line, AttributesRead(set_madeval(cfg, inp))))
    /\ inp' = None
    /\ UNCHANGED <<todo, comp, nrec, src, last_element, yielded, out>>

AllowNext ==
    \/ AllowMergeDrift
    \/ AllowAdopt
    \/ IterNoElements
    \/ IterFinish
    \/ AllowBody

SpecAllow == AllowInit /\ [][AllowNext]_vars

\* C20: with an allow-list of element types, an element made from a view
\* whose type is not listed, merged views included, comes from a plain
\* builder (no expression is attached to it) and all its attributes are
\* literals; an element of a listed type comes from the expression-linked
\* builder, so the expression of its length is attached to it.
C20_OnlyListedTypesLinked ==
    cfg.expressions_for_element_types # None =>
        \A i \in DOMAIN src :
            LET n == src[i].name
            IN  n \in DOMAIN line.dict =>
                    IF src[i].type \in cfg.expressions_for_element_types.v
                    THEN src[i].cmdpar.l.expr # None =>
                             \E lk \in line.links : lk.name = n /\ lk.key = "length"
                    ELSE /\ \A k \in DOMAIN line.dict[n].attrs :
                                line.dict[n].attrs[k].t # "expr"
                         /\ \A lk \in line.links : lk.name # n

\* the record has a shape array that is not the trivial one
NonTrivialShape(el) ==
    el.aperture[1] # 0 \/ Len(el.aperture) > 1

\* the elements the record got in the line, when it is converted flat
EmittedAperture ==
    \E i \in DOMAIN line.names : line.names[i] = inp.name \o "_aper"

\* C21 as stated: has_aperture() is true iff the record has a non-trivial
\* shape array or at least 2 polygon vertices in aper_vx; is_empty_marker()
\* is true iff the type is marker and has_aperture() is false.
C21_HasApertureFromTwoVertices ==
    /\ has_aperture(inp) <=> (NonTrivialShape(inp) \/ Len(inp.aper_vx) >= 2)
    /\ is_empty_marker(inp) <=> (inp.type = "marker" /\ ~has_aperture(inp))

\* C21, amended: has_aperture() is true iff the record has a non-trivial
\* shape array or more than 2 entries in aper_vx; is_empty_marker() is true
\* iff the type is marker and has_aperture() is false. With apertures
\* enabled, a record without aperture gets no aperture element in the line
\* and a supported shape of a record with aperture gets one.
C21_HasApertureFromThreeVertices ==
    /\ has_aperture(inp) <=> (NonTrivialShape(inp) \/ Len(inp.aper_vx) > 2)
    /\ is_empty_marker(inp) <=>
          (inp.type = "marker" /\ ~NonTrivialShape(inp) /\ Len(inp.aper_vx) <= 2)
    /\ (pc = "added" /\ cfg.enable_apertures) =>
          /\ ~(NonTrivialShape(inp) \/ Len(inp.aper_vx) > 2) => ~EmittedAperture
          /\ Len(inp.aper_vx) > 2 => EmittedAperture

\* a marker with the trivial shape array and two entries in aper_vx was
\* converted with apertures enabled: it is an empty marker, alone in the line
C21_Witness ==
    /\ pc = "added"
    /\ cfg.enable_apertures
    /\ inp.type = "marker"
    /\ inp.aperture = <<0>>
    /\ Len(inp.aper_vx) = 2
    /\ is_empty_marker(inp)
    /\ line.names = <<"e">>

\* the names a builder of base name b can be inserted under
NameFamily(b) ==
    {b} \cup {b \o ":" \o ToString(k) : k \in 0..MaxRecords}

\* the names of the line that belong to base name b, in the order of insertion
InsertedAs(b) ==
    SelectSeq(line.names, LAMBDA n : n \in NameFamily(b))

BuilderNames == {b.name : b \in ExprBuilders}

\* C22 as stated: of the builders with the same base name that are
\* materialized into a line, the first is inserted as name, the second as
\* name:1, the third as name:2, and so on.
C22_SuffixesCountFromOne ==
    \A b \in BuilderNames :
        \A j \in DOMAIN InsertedAs(b) :
            InsertedAs(b)[j] = IF j = 1 THEN b ELSE b \o ":" \o ToString(j - 1)

\* C22, amended: the first is inserted as name, the second as name:0, the
\* third as name:1, and so on (the suffix is the first number from 0 whose
\* name is not in the line yet).
C22_SuffixesCountFromZero ==
    \A b \in BuilderNames :
        \A j \in DOMAIN InsertedAs(b) :
            InsertedAs(b)[j] = IF j = 1 THEN b ELSE b \o ":" \o ToString(j - 2)

\* three builders named d were materialized
C22_Witness ==
    /\ nrec = 3
    /\ line.names = <<"d", "d:0", "d:1">>

\* C23 as stated: every source record is fully processed before the next
\* one is visited: when the view of record k+1 is about to be constructed,
\* the elements of record k, or of the merge group it belongs to, are in
\* the line.
C23_ProcessedBeforeNextVisit ==
    (pc = "iter" /\ last_element # Dummy) => last_element.name \in DOMAIN line.dict

\* C23, amended: the translation runs one view behind the iteration. When
\* the next record is about to be visited, the elements of every view that
\* was flushed are in the line, and the pending view (the last record that
\* was kept, or the merge group it belongs to) is not converted yet: its
\* elements are appended only after a later record has displaced it or the
\* sequence has ended.
C23_OneViewBehind ==
    pc = "iter" =>
        /\ \A i \in DOMAIN yielded : yielded[i].name \in DOMAIN line.dict
        /\ last_element # Dummy => last_element.name \notin DOMAIN line.dict

\* two records were visited: the first is in the line, the second is pending
C23_Witness ==
    /\ pc = "iter"
    /\ Len(src) = 2
    /\ Len(yielded) = 1
    /\ yielded[1].name = "e1"
    /\ "e1" \in DOMAIN line.dict
    /\ last_element # Dummy
    /\ last_element.name = "e2"
    /\ "e2" \notin DOMAIN line.dict

\* make_compound_elem puts aperture builders before the core of the record
WithApertureBuilders ==
    cfg.enable_apertures /\ (NonTrivialShape(inp) \/ Len(inp.aper_vx) > 2)

\* make_compound_elem puts transformations around the core of the record
WithAlignmentBuilders ==
    cfg.enable_align_errors /\ inp.align_errors # None

\* the core of the record is a single marker, or a single drift of a
\* record whose name starts with drift_
MarkerOrSlicedDrift ==
    inp.type = "marker" \/ StartsWith(inp.name, "drift_")

\* the record was converted to one plain builder; added to the line it is
\* one element, without markers around it and without a compound
PassedThrough ==
    /\ Len(out.out) = 1
    /\ out.out[1].cls # "CompoundElementBuilder"
    /\ out.out[1].name = inp.name
    /\ pc = "added" => (line.names = <<inp.name>> /\ line.nreg = 0)

\* the record was converted to one compound builder; added to the line it
\* stands between its two markers and the compound is registered
MadeCompound ==
    /\ Len(out.out) = 1
    /\ out.out[1].cls = "CompoundElementBuilder"
    /\ pc = "added" => /\ Head(line.names) = inp.name \o "_entry"
                       /\ line.names[Len(line.names)] = inp.name \o "_exit"
                       /\ inp.name \in DOMAIN line.compounds

\* C24 as stated: with compound elements enabled, a core that is a single
\* marker, or a single drift of a view whose name starts with drift_, is
\* passed through as that one plain builder, whether or not the record has
\* an aperture or a tilt or offset; every other core gives one compound.
C24_SingletonCorePassedThrough ==
    (cfg.use_compound_elements /\ pc \in {"converted", "added"}) =>
        IF MarkerOrSlicedDrift THEN PassedThrough ELSE MadeCompound

\* C24, amended: such a core is passed through as one plain builder only
\* when no aperture builder and no transformation is put around it; with an
\* aperture (apertures enabled) or an alignment error (errors enabled), and
\* for every other core, the result is one compound builder.
C24_SingletonListPassedThrough ==
    (cfg.use_compound_elements /\ pc \in {"converted", "added"}) =>
        IF MarkerOrSlicedDrift /\ ~WithApertureBuilders /\ ~WithAlignmentBuilders
        THEN PassedThrough ELSE MadeCompound

\* a marker with a circular aperture became a compound with an aperture
\* element between its markers
C24_Witness ==
    /\ pc = "added"
    /\ cfg.use_compound_elements
    /\ cfg.enable_apertures
    /\ inp.type = "marker"
    /\ inp.name = "e"
    /\ inp.apertype = "circle"
    /\ line.names = <<"e_entry", "e_aper", "e", "e_exit">>
    /\ "e" \in DOMAIN line.compounds

\* C25: when an expression-linked builder is materialized, every attribute
\* is resolved to its current value for the allocation: get_value maps an
\* expression to its value, a literal to itself, and a list or an array to
\* the list or array of the resolved items, never to a missing value.
C25_GetValueResolvesEveryAttribute ==
    \A i \in DOMAIN src :
        \A k \in DOMAIN src[i].attrs :
            get_value(src[i].attrs[k], line.var_values)
                = CurrentValue(src[i].attrs[k], line.var_values)

\* C26: iter_elements never yields the sentinel: every yielded object is
\* the view of a source record, and when every record of the sequence was
\* discarded nothing is yielded and make_line returns the empty line
\* without raising.
C26_SentinelNeverYielded ==
    /\ \A i \in DOMAIN yielded : yielded[i] # Dummy
    /\ (Len(src) >= 1 /\ last_element = Dummy /\ pc \notin {"iter", "last_body"})
          => (pc = "done" /\ yielded = <<>> /\ line.names = <<>>)

\* iter_elements merges record b into the pending view that ends with a
MergesInto(a, b) ==
    \/ cfg.merge_drifts /\ a.type = "drift" /\ b.type = "drift"
    \/ /\ cfg.merge_multipoles /\ a.type = "multipole" /\ b.type = "multipole"
       /\ SameMergeParameters(a, b)

\* the groups of the kept records K, in source order: the record that
\* starts the group, the names and the lengths of the records merged into it
RECURSIVE GroupsOf(_)
GroupsOf(K) ==
    IF K = <<>> THEN <<>>
    ELSE LET n == Len(K)
             g == GroupsOf(SubSeq(K, 1, n - 1))
         IN  IF n > 1 /\ MergesInto(K[n - 1], K[n])
             THEN [g EXCEPT ![Len(g)] = [@ EXCEPT !.joined = @ \o "_" \o K[n].name,
                                                  !.l = @ + K[n].l]]
             ELSE Append(g, [head |-> K[n].name, joined |-> K[n].name,
                             l |-> K[n].l, type |-> K[n].type])

\* the views of source records that were yielded, followed by the pending
\* view while the sequence is not exhausted
ViewsSoFar ==
    SelectSeq(yielded, LAMBDA v : v # Dummy)
        \o (IF pc \in {"iter", "body"} /\ last_element # Dummy
            THEN <<last_element>> ELSE <<>>)

\* C27: iter_elements accounts for each source record exactly once: a
\* record is discarded (an empty marker that is skipped, an ignored type),
\* or merged into the pending view of its type, or it starts a view that is
\* yielded exactly once; the views come in source order, and discarded
\* records between two drifts or two compatible multipoles do not stop
\* them from being merged.
C27_EachRecordOnce ==
    pc \in {"iter", "body", "last_body", "done"} =>
        LET groups == GroupsOf(Kept(src))
        IN  /\ Len(ViewsSoFar) = Len(groups)
            /\ \A n \in DOMAIN groups :
                  /\ ViewsSoFar[n].type = groups[n].type
                  /\ ViewsSoFar[n].name = IF groups[n].type = "multipole"
                                          THEN groups[n].joined ELSE groups[n].head
                  /\ groups[n].type = "drift" => ViewsSoFar[n].l = groups[n].l

\* a drift, a skipped empty marker and a drift were yielded as one view
C27_Witness ==
    /\ pc = "done"
    /\ cfg.skip_markers /\ cfg.merge_drifts
    /\ Len(src) = 3
    /\ src[1].type = "drift"
    /\ src[2].type = "marker"
    /\ src[3].type = "drift"
    /\ Len(yielded) = 1
    /\ yielded[1].name = "e1"
    /\ yielded[1].l = src[1].l + src[3].l

\* C28: every name recorded in a registered compound is the name under
\* which one of the builders of that compound was inserted into the line,
\* also when the base name of a builder was in the line already and the
\* element was inserted under a suffixed name.
C28_CompoundListsInsertedNames ==
    [][(pc = "compound" /\ pc' = "loop") =>
          CompoundNames(line'.compounds[comp.cb.name])
              \subseteq {line.names[i] : i \in (comp.start + 1)..Len(line.names)}]_vars

(***************************************************************************)
(* SpecFlat: the same sequence translated by two loaders that differ in    *)
(* use_compound_elements only; line is the line of the loader with         *)
(* compounds, out the line of the loader without                           *)
(***************************************************************************)
\* the records of SpecLine and a cavity with a length, which is sliced
FlatRecords ==
    LineRecords
        \cup {Elem(n, "rfcavity", [l |-> 2] @@ pars)
                 : n \in LineNames, pars \in ConvPars("rfcavity")}

FlatInit ==
    /\ cfg = [DefaultCfg EXCEPT !.enable_apertures = TRUE, !.enable_align_errors = TRUE]
    /\ line = EmptyLine
    /\ pc = "loop"
    /\ todo = <<>>
    /\ comp = None
    /\ nrec = 0
    /\ src = <<>>
    /\ last_element = None
    /\ yielded = <<>>
    /\ inp = None
    /\ out = EmptyLine

\* the position after both loaders have converted the record
AfterBoth(el, converted) ==
    /\ src' = Append(src, el)
    /\ nrec' = nrec + 1
    /\ IF converted[TRUE].err # "ok" \/ converted[FALSE].err # "ok"
       THEN /\ pc' = IF converted[TRUE].err # "ok" THEN converted[TRUE].err
                     ELSE converted[FALSE].err
            /\ UNCHANGED <<line, out>>
       ELSE /\ line' = add_elements(line, converted[TRUE].out)
            /\ out' = add_elements(out, converted[FALSE].out)
            /\ UNCHANGED pc

\* make_line, loop body, in both loaders: converter(el) and add_elements
FlatTranslate ==
    /\ pc = "loop"
    /\ nrec < MaxRecords
    /\ \E el \in FlatRecords :
          AfterBoth(el, [uc \in BOOLEAN |->
                            converter([cfg EXCEPT !.use_compound_elements = uc],
                                      MadElem(el.name, el, cfg.name_prefix))])
    /\ UNCHANGED <<cfg, todo, comp, last_element, yielded, inp>>

SpecFlat == FlatInit /\ [][FlatTranslate]_vars

\* the names the markers of the compound of a record can be inserted under
CompoundMarkerNames ==
    UNION {NameFamily(src[i].name \o "_entry") \cup NameFamily(src[i].name \o "_exit")
              : i \in DOMAIN src}

\* the types and attributes of the elements of a line, in order, without
\* the entry and exit markers of compounds
ElementsWithoutMarkers(ln) ==
    LET kept == SelectSeq(ln.names, LAMBDA n : n \notin CompoundMarkerNames)
    IN  [i \in DOMAIN kept |-> [type |-> ln.dict[kept[i]].type,
                                attrs |-> ln.dict[kept[i]].attrs]]

\* C29: for the same sequence and the same other options, the line built
\* without compound elements has the elements of the line built with them,
\* the entry and exit markers of the compounds left out: same types, same
\* attributes, same order; and without compound elements no compound is
\* registered.
C29_FlatEqualsCompoundWithoutMarkers ==
    /\ ElementsWithoutMarkers(line) = ElementsWithoutMarkers(out)
    /\ Len(ElementsWithoutMarkers(out)) = Len(out.names)
    /\ out.nreg = 0
    /\ out.compounds = EmptyLine.compounds

\* a multipole with an aperture and a tilt was translated: a compound with
\* two markers in one line, the same elements without compound in the other
C29_Witness ==
    /\ Len(src) = 1
    /\ src[1].type = "multipole"
    /\ src[1].aperture = <<1>>
    /\ line.nreg = 1
    /\ Len(line.names) = Len(out.names) + 2
    /\ Len(out.names) >= 4
    /\ out.nreg = 0

(***************************************************************************)
(* SpecMerge: merge_multipole on two multipole views with field errors     *)
(***************************************************************************)
\* FieldErrors.__init__
FieldErrors(dkn, dks) == [none |-> FALSE, dkn |-> dkn, dks |-> dks]

\* no field errors, errors up to order 0, errors up to order 1
MergeFieldErrors ==
    {None, FieldErrors(<<1>>, <<1>>), FieldErrors(<<1, 2>>, <<0, 1>>)}

\* the views of the multipoles at places 1 and 2 of a sequence
MergeViews(n) ==
    {MadElem("e" \o ToString(n),
             Elem("e" \o ToString(n), "multipole",
                  [field_errors |-> fe, tilt |-> tilt] @@ MultipolePars(knl, <<0>>)),
             None)
        : fe \in MergeFieldErrors, tilt \in 0..1, knl \in {<<1>>, <<2, 3>>}}

MergeInit ==
    /\ cfg = [DefaultCfg EXCEPT !.merge_multipoles = TRUE, !.enable_field_errors = TRUE]
    /\ line = EmptyLine
    /\ pc = "start"
    /\ todo = <<>>
    /\ comp = None
    /\ nrec = 0
    /\ src = <<>>
    /\ last_element \in MergeViews(1)
    /\ yielded = <<>>
    /\ inp \in MergeViews(2)
    /\ out = None

\* merged = last_element.merge_multipole(madelem)
MergeMultipole ==
    /\ pc = "start"
    /\ out' = merge_multipole(last_element, inp)
    /\ pc' = IF out'.err # "ok" THEN out'.err
             ELSE IF out'.merged THEN "merged" ELSE "refused"
    /\ UNCHANGED <<cfg, line, todo, comp, nrec, src, last_element, yielded, inp>>

SpecMerge == MergeInit /\ [][MergeMultipole]_vars

\* the field errors of a view, all zeros when it has none
ErrorsOrZeros(view, key) ==
    IF view.field_errors = None THEN <<>> ELSE view.field_errors[key]

\* C30: after merge_multipole has merged, the field errors of the merged
\* view are the elementwise sum of the field errors of the two views, a
\* view without field errors counting as zeros: the errors of other are not
\* lost when self has none, and lists of different lengths are padded with
\* zeros and do not make the merge fail.
C30_FieldErrorsSummed ==
    (pc # "start" /\ SameMergeParameters(last_element, inp)) =>
        /\ pc = "merged"
        /\ \A key \in {"dkn", "dks"} :
              ErrorsOrZeros(out.self, key)
                  = ElementwiseSum(ErrorsOrZeros(last_element, key), ErrorsOrZeros(inp, key))

====
